---- MODULE Spec2Model ----
(***************************************************************************)
(* Pool lifecycle of KodiakV3Setup (src/v3_kodiak_pool_setup.py) and the   *)
(* archived swap_tokens draft (src/archive/v3_kodiak_pool_setup_old.py),   *)
(* run by one signer against a chain.  An operation is a sequence of steps *)
(* (pc); every step is one stretch of the method between two points where  *)
(* the chain answers: a read, a broadcast, a receipt.                      *)
(***************************************************************************)
EXTENDS Integers, Sequences, FiniteSets, TLC

\* Number of operations one run invokes.
MaxCalls == 2
\* Number of trades of other actors during one diagnosis.
MaxTrades == 2

ZERO_ADDRESS == "0x0000000000000000000000000000000000000000"
\* The address the factory registers for (token0, token1, fee).
POOL == "0xPOOL"

PoolStates == {"NonExistent", "Uninitialized", "Initialized", "Funded"}
Ops == {"create_pool", "initialize_V3pool", "add_full_range_liquidity",
        "swap_tokens", "swap_tokens_alternative", "swap_tokens_old"}
SwapOps == {"swap_tokens", "swap_tokens_alternative"}

VARIABLES
    poolState,  \* on-chain state of the pool of (token0, token1, fee)
    txCount,    \* eth.get_transaction_count(account): mined transactions of the signer
    txs,        \* every transaction the signer broadcast, in order; its index is its hash
    pc,         \* position of the caller inside the running operation, or "idle"
    op,         \* the running operation
    loc,        \* local variables of the running operation
    results,    \* outcome of every finished operation, in order
    poolFee,    \* pool.fee() of the pool at pool_address (0 while there is no pool)
    args,       \* amount0, amount1, amount_in the caller passes in this run
    fnArgs,     \* arguments of a call that needs no chain (the constructor)
    fnResult,   \* what that call stored
    poolView,   \* what the pool and the position manager answer to the diagnostic reads
    diagnosis,  \* number of diagnostic calls made and the outcome of the last one
    race,       \* position and nonce read of each of two concurrent orchestrations;
                \* or where the caller was when another actor created the pool
    eventLog    \* the chain head, the events of the pool ABI, the get_logs requests
                \* made and the outcome of the last event-log query method

\* What no operation on the chain changes.
callVars == <<args, fnArgs, fnResult, poolView, diagnosis, race, eventLog>>

vars == <<poolState, txCount, txs, pc, op, loc, results, poolFee, args, fnArgs, fnResult,
          poolView, diagnosis, race, eventLog>>

\* Values of the variables a specification does not use.
NoPoolView == [tick |-> 0, spacing |-> 1, liqTicks |-> {}, strict |-> TRUE,
               position |-> [tick_lower |-> 0, tick_upper |-> 0]]
NoDiag == [n |-> 0]
NoRace == [none |-> TRUE]
NoEventLog == [none |-> TRUE]

----
\* Values an operation returns.
NoneVal == [t |-> "none", addr |-> "", hash |-> 0, price |-> ""]
AddrVal(a) == [t |-> "addr", addr |-> a, hash |-> 0, price |-> ""]
HashVal(h) == [t |-> "hash", addr |-> "", hash |-> h, price |-> ""]
PriceVal(p) == [t |-> "price", addr |-> "", hash |-> 0, price |-> p]

\* Local variables at the start of an operation.
\*   existing : existing_pool_address ("" before the read)
\*   slot0    : outcome of the slot0 read ("none" before the read)
\*   tx_hash  : hash of the last broadcast
\*   i        : index of the approval loop
\*   pool_fee : pool.functions.fee().call() (0 before the read)
\*   ticks    : which boundary ticks the re-query after the mint found
\*              initialized ("none" before the re-query)
\*   replay   : outcome of the replay after a failed swap receipt (archived draft)
LocInit == [existing |-> "", slot0 |-> "none", tx_hash |-> 0, i |-> 0,
            pool_fee |-> 0, ticks |-> "none", replay |-> "none"]

\* The invocation that is running (or the next one, when idle).
CurCall == Len(results) + 1

\* Hashes of the transactions broadcast by invocation c.
TxsOfCall(c) == {h \in 1..Len(txs) : txs[h].call = c}

----
\* Constants of the methods.

\* fee = 100 in create_pool
CreateFee == 100
\* gas_limit = int(gas_estimate * 1.2), computed by create_pool
GasLimit(gas_estimate) == (gas_estimate * 12) \div 10
\* 'gas' of initialize, approve, mint and the swaps
InitializeGas == 200000
ApproveGas == 100000
MintGas == 1000000
SwapGas == 500000
\* 'gas': int(gas_estimate * 1.5) of the archived swap_tokens
SwapOldGas(gas_estimate) == (gas_estimate * 15) \div 10
MIN_TICK == -887272
MAX_TICK == 887272
\* deadline: timestamp of the latest block + 1200
DeadlineWindow == 1200

\* Arguments main() passes: amount0, amount1 (1000 * 10**6), amount_to_swap.
MainArgs == [amount0 |-> 1000000000, amount1 |-> 1000000000, amount_in |-> 500000000]

----
\* Chain reads (.call()).

\* factory.getPool(token0, token1, fee): the registered pool or the zero address.
GetPool == IF poolState = "NonExistent" THEN ZERO_ADDRESS ELSE POOL

\* Outcomes of pool.slot0().call(): a value, the revert of a pool that was not
\* initialized, or a failure of the RPC that says nothing about the pool.
Slot0Outcomes ==
    IF poolState = "Uninitialized" THEN {"uninit", "rpc"} ELSE {"ok", "rpc"}

\* slot0[0] of an initialized pool.
SqrtPriceX96 == "sqrtPriceX96"

\* eth.get_transaction_count(account.address)
GetTransactionCount == txCount

\* Mutant: the fee is the constant of create_pool, not a read of the pool.
GetFee_Hardcoded == CreateFee

\* pool.functions.fee().call()
GetFee == poolFee

\* w3.eth.get_block('latest')['timestamp']: every mined transaction is a block.
LatestBlockTimestamp == 1700000000 + 2 * txCount

\* Fee tiers of the factory and the tick spacing it gives each.
FeeTiers == {100, 500, 3000, 10000}
TickSpacingOf(fee) ==
    CASE fee = 100 -> 1 [] fee = 500 -> 10 [] fee = 3000 -> 60 [] OTHER -> 200

\* What estimate_gas may answer.
GasEstimates == {100000, 4500005}

----
\* Arguments of the contract calls.
NoParams == [none |-> TRUE]

\* Python integers have no width; a number beyond 32 bits is kept as its
\* decimal digits, lowest first while it is computed.
RECURSIVE TimesDigits(_, _, _)
TimesDigits(k, d, carry) ==
    IF d = <<>>
    THEN (IF carry = 0 THEN <<>>
          ELSE <<carry % 10>> \o TimesDigits(k, d, carry \div 10))
    ELSE <<(k * Head(d) + carry) % 10>>
         \o TimesDigits(k, Tail(d), (k * Head(d) + carry) \div 10)
\* 2**n, sixteen doublings at a time where n allows (2**16 = 65536).
RECURSIVE Pow2(_)
Pow2(n) ==
    IF n = 0 THEN <<1>>
    ELSE IF n >= 16 THEN TimesDigits(65536, Pow2(n - 16), 0)
    ELSE TimesDigits(2, Pow2(n - 1), 0)
Reverse(d) == [i \in 1..Len(d) |-> d[Len(d) + 1 - i]]

\* INITIAL_SQRTPRICE = 1 * 2**96, as decimal digits, highest first.
INITIAL_SQRTPRICE == Reverse(TimesDigits(1, Pow2(96), 0))

\* Mutant: the price 1.0 is passed as it is, without the Q64.96 encoding.
InitializeParams_Unencoded == [sqrtPriceX96 |-> <<1>>]

\* pool.functions.initialize(INITIAL_SQRTPRICE)
InitializeParams == [sqrtPriceX96 |-> INITIAL_SQRTPRICE]
CreatePoolParams == [token0 |-> "token0", token1 |-> "token1", fee |-> CreateFee]
ApproveParams(spender, amount) == [spender |-> spender, amount |-> amount]

\* Mutant: the bounds are rounded inward to the pool's tick spacing.
MintParams_AlignedTicks(pool_fee, amount0, amount1) ==
    [token0 |-> "token0", token1 |-> "token1", fee |-> pool_fee,
     tickLower |-> 0 - (MAX_TICK - (MAX_TICK % TickSpacingOf(pool_fee))),
     tickUpper |-> MAX_TICK - (MAX_TICK % TickSpacingOf(pool_fee)),
     amount0Desired |-> amount0, amount1Desired |-> amount1,
     amount0Min |-> 0, amount1Min |-> 0,
     recipient |-> "account",
     deadline |-> LatestBlockTimestamp + DeadlineWindow]

\* nft_manager.functions.mint({...})
MintParams(pool_fee, amount0, amount1) ==
    [token0 |-> "token0", token1 |-> "token1", fee |-> pool_fee,
     tickLower |-> MIN_TICK, tickUpper |-> MAX_TICK,
     amount0Desired |-> amount0, amount1Desired |-> amount1,
     amount0Min |-> 0, amount1Min |-> 0,
     recipient |-> "account",
     deadline |-> LatestBlockTimestamp + DeadlineWindow]

\* router.functions.exactInput(params): the path is token0 + fee + token1.
ExactInputParams(fee, amount_in) ==
    [path |-> <<"token0", fee, "token1">>, fee |-> fee,
     recipient |-> "account",
     deadline |-> LatestBlockTimestamp + DeadlineWindow,
     amountIn |-> amount_in, amountOutMinimum |-> 0]

\* Mutant: the record names the input token as the output token too.
ExactInputSingleParams_SameToken(tokenIn, tokenOut, fee, amount_in) ==
    [tokenIn |-> tokenIn, tokenOut |-> tokenIn, fee |-> fee,
     recipient |-> "account",
     deadline |-> LatestBlockTimestamp + DeadlineWindow,
     amountIn |-> amount_in, amountOutMinimum |-> 0, sqrtPriceLimitX96 |-> 0]

\* Mutant: the deadline is the latest block's timestamp, without the window.
ExactInputSingleParams_NoWindow(tokenIn, tokenOut, fee, amount_in) ==
    [tokenIn |-> tokenIn, tokenOut |-> tokenOut, fee |-> fee,
     recipient |-> "account",
     deadline |-> LatestBlockTimestamp,
     amountIn |-> amount_in, amountOutMinimum |-> 0, sqrtPriceLimitX96 |-> 0]

\* router.functions.exactInputSingle(params)
ExactInputSingleParams(tokenIn, tokenOut, fee, amount_in) ==
    [tokenIn |-> tokenIn, tokenOut |-> tokenOut, fee |-> fee,
     recipient |-> "account",
     deadline |-> LatestBlockTimestamp + DeadlineWindow,
     amountIn |-> amount_in, amountOutMinimum |-> 0, sqrtPriceLimitX96 |-> 0]

----
\* Leaving an operation (op' is the operation that runs in this step).

\* The outcome is logged with the locals l the operation ended with.
Finish(kind, v, e, h, l) ==
    /\ results' = Append(results, [op |-> op', kind |-> kind, val |-> v,
                                   err |-> e, errHash |-> h, loc |-> l])
    /\ pc' = "idle"
    /\ loc' = LocInit

Return(v) == Finish("return", v, "none", 0, loc)

\* raise: e is "RuntimeError" (wrapped by the method's except) or "raw" (an
\* exception that left the method unwrapped); h is the transaction hash the
\* message carries, 0 when it carries none.
Raise(e, h) == Finish("raise", NoneVal, e, h, loc)

\* build_transaction + sign_transaction + send_raw_transaction: the transaction
\* enters the log as pending, with the nonce read from the chain.
\* token is the token an approval is sent to ("none" for the other kinds).
\* The log also keeps what was true at the broadcast: the pool's state and the
\* outcome of the slot0 read that led to it.
\* gas is the 'gas' of the transaction, estimate the gas estimate that
\* preceded it (0 when the method estimates nothing), params the arguments of
\* the contract call, timestamp that of the latest block when it was built.
Broadcast(kind, token, gas, estimate, params) ==
    /\ txs' = Append(txs, [kind |-> kind, token |-> token, op |-> op', call |-> CurCall,
                           nonce |-> GetTransactionCount, status |-> "pending",
                           hasEvent |-> FALSE, observed |-> FALSE,
                           stateAtSend |-> poolState, slot0 |-> loc.slot0,
                           gas |-> gas, estimate |-> estimate, params |-> params,
                           timestamp |-> LatestBlockTimestamp])
    /\ loc' = [loc EXCEPT !.tx_hash = Len(txs) + 1]

\* Mutant: the caller does not wait for the receipt (fire and forget).
Mined_NoWait(h) == h \in 1..Len(txs)

\* wait_for_transaction_receipt(tx_hash) has returned the receipt.
Mined(h) == h \in 1..Len(txs) /\ txs[h].status # "pending"
Observe(h) == txs' = [txs EXCEPT ![h].observed = TRUE]

\* The caller invokes operation o; the caller is inside the operation at p.
Start(o) == pc = "idle" /\ Len(results) < MaxCalls /\ op' = o
At(p) == pc = p /\ op' = op

----
\* The chain mines a pending transaction (what wait_for_transaction_receipt
\* waits for).  A transaction that cannot succeed in the pool's state reverts;
\* any transaction may fail (out of gas, revert).  The signer's transaction
\* count grows with every mined transaction, reverted or not.
StatusOutcomes(kind) ==
    {"failed"} \cup
    CASE kind = "createPool" -> IF poolState = "NonExistent" THEN {"success"} ELSE {}
      [] kind = "initialize" -> IF poolState = "Uninitialized" THEN {"success"} ELSE {}
      [] kind = "mint"       -> IF poolState \in {"Initialized", "Funded"} THEN {"success"} ELSE {}
      [] kind = "swap"       -> IF poolState = "Funded" THEN {"success"} ELSE {}
      [] OTHER               -> {"success"}

\* State of the pool after a successful transaction of the kind.
Effect(kind) ==
    CASE kind = "createPool" -> "Uninitialized"
      [] kind = "initialize" -> "Initialized"
      [] kind = "mint"       -> "Funded"
      [] OTHER               -> poolState

\* Whether a successful receipt can carry the event the method decodes
\* (PoolCreated, IncreaseLiquidity); process_receipt(...)[0] fails without it.
EventOutcomes(kind, s) ==
    IF s = "success" /\ kind \in {"createPool", "mint"} THEN {TRUE, FALSE} ELSE {FALSE}

Mine ==
    \E h \in 1..Len(txs) :
        /\ txs[h].status = "pending"
        /\ \E s \in StatusOutcomes(txs[h].kind) :
           \E ev \in EventOutcomes(txs[h].kind, s) :
              /\ txs' = [txs EXCEPT ![h].status = s, ![h].hasEvent = ev]
              /\ poolState' = IF s = "success" THEN Effect(txs[h].kind) ELSE poolState
              /\ poolFee' = IF s = "success" /\ txs[h].kind = "createPool"
                            THEN txs[h].params.fee ELSE poolFee
        /\ txCount' = txCount + 1
        /\ UNCHANGED <<pc, op, loc, results, callVars>>

----
\* create_pool(chain_id)

\* Mutant: the existence check is read but never short-circuits.
CreatePool_GetPool_NoShortCircuit ==
    /\ Start("create_pool")
    /\ \E rpc \in {"ok", "rpc"} :
          IF rpc = "rpc" THEN Raise("raw", 0)
          ELSE /\ pc' = "cp_send"
               /\ loc' = [LocInit EXCEPT !.existing = GetPool]
               /\ UNCHANGED results
    /\ UNCHANGED <<poolState, poolFee, callVars, txCount, txs>>

\* The existence check: getPool(...).call(), outside the try.
CreatePool_GetPool ==
    /\ Start("create_pool")
    /\ \E rpc \in {"ok", "rpc"} :
          IF rpc = "rpc" THEN Raise("raw", 0)
          ELSE IF GetPool # ZERO_ADDRESS
               THEN Finish("return", AddrVal(GetPool), "none", 0,
                           [LocInit EXCEPT !.existing = GetPool])
               ELSE /\ pc' = "cp_send"
                    /\ loc' = [LocInit EXCEPT !.existing = GetPool]
                    /\ UNCHANGED results
    /\ UNCHANGED <<poolState, poolFee, callVars, txCount, txs>>

\* estimate_gas, build_transaction, sign, send_raw_transaction.
CreatePool_Send ==
    /\ At("cp_send")
    /\ \E out \in {"estimate_failed", "send_failed", "sent"} :
       \E gas_estimate \in GasEstimates :
          IF out = "sent"
          THEN /\ Broadcast("createPool", "none", gas_estimate, gas_estimate,
                            CreatePoolParams)
               /\ pc' = "cp_wait"
               /\ UNCHANGED results
          ELSE Raise("RuntimeError", 0) /\ UNCHANGED txs
    /\ UNCHANGED <<poolState, poolFee, callVars, txCount>>

\* Mutant: the address that emitted the event (the factory) is taken for the pool.
PoolCreatedPool_EmitterAddress(h) == "0xFACTORY"

\* The pool field of the PoolCreated event of a receipt.
PoolCreatedPool(h) == POOL

\* Mutant: a failed receipt sends the operation back to estimate and send.
CreatePool_Wait_Retry ==
    /\ At("cp_wait")
    /\ Mined(loc.tx_hash)
    /\ Observe(loc.tx_hash)
    /\ IF txs[loc.tx_hash].status # "success"
       THEN pc' = "cp_send" /\ UNCHANGED <<loc, results>>
       ELSE IF ~txs[loc.tx_hash].hasEvent THEN Raise("RuntimeError", 0)
       ELSE Return(AddrVal(PoolCreatedPool(loc.tx_hash)))
    /\ UNCHANGED <<poolState, poolFee, callVars, txCount>>

\* Mutant: without the event the address is read back from the factory.
CreatePool_Wait_NoEventFallback ==
    /\ At("cp_wait")
    /\ Mined(loc.tx_hash)
    /\ Observe(loc.tx_hash)
    /\ IF txs[loc.tx_hash].status # "success" THEN Raise("RuntimeError", 0)
       ELSE Return(AddrVal(GetPool))
    /\ UNCHANGED <<poolState, poolFee, callVars, txCount>>

\* Mutant: after a failed receipt the factory is read again and a pool it
\* has registered by then is returned.
CreatePool_Wait_ReturnsRegistered ==
    /\ At("cp_wait")
    /\ Mined(loc.tx_hash)
    /\ Observe(loc.tx_hash)
    /\ IF txs[loc.tx_hash].status # "success"
       THEN IF GetPool # ZERO_ADDRESS THEN Return(AddrVal(GetPool))
            ELSE Raise("RuntimeError", 0)
       ELSE IF ~txs[loc.tx_hash].hasEvent THEN Raise("RuntimeError", 0)
       ELSE Return(AddrVal(PoolCreatedPool(loc.tx_hash)))
    /\ UNCHANGED <<poolState, poolFee, callVars, txCount>>

\* wait_for_transaction_receipt, the status check, the event.
CreatePool_Wait ==
    /\ At("cp_wait")
    /\ Mined(loc.tx_hash)
    /\ Observe(loc.tx_hash)
    /\ IF txs[loc.tx_hash].status # "success" THEN Raise("RuntimeError", 0)
       ELSE IF ~txs[loc.tx_hash].hasEvent THEN Raise("RuntimeError", 0)
       ELSE Return(AddrVal(PoolCreatedPool(loc.tx_hash)))
    /\ UNCHANGED <<poolState, poolFee, callVars, txCount>>

----
\* initialize_V3pool(pool_address); pool_address is the address of the pool,
\* so the pool exists.

\* Mutant: the initialize transaction is sent whatever the slot0 read says.
InitializePool_Slot0_AlwaysSend ==
    /\ Start("initialize_V3pool")
    /\ poolState # "NonExistent"
    /\ \E r \in Slot0Outcomes :
          /\ pc' = "iv_send"
          /\ loc' = [LocInit EXCEPT !.slot0 = r]
          /\ UNCHANGED results
    /\ UNCHANGED <<poolState, poolFee, callVars, txCount, txs>>

\* try: slot0().call(); return None / except Exception: (anything)
InitializePool_Slot0 ==
    /\ Start("initialize_V3pool")
    /\ poolState # "NonExistent"
    /\ \E r \in Slot0Outcomes :
          IF r = "ok"
          THEN Finish("return", NoneVal, "none", 0, [LocInit EXCEPT !.slot0 = r])
          ELSE /\ pc' = "iv_send"
               /\ loc' = [LocInit EXCEPT !.slot0 = r]
               /\ UNCHANGED results
    /\ UNCHANGED <<poolState, poolFee, callVars, txCount, txs>>

InitializePool_Send ==
    /\ At("iv_send")
    /\ \E out \in {"send_failed", "sent"} :
          IF out = "sent"
          THEN /\ Broadcast("initialize", "none", InitializeGas, 0, InitializeParams)
               /\ pc' = "iv_wait"
               /\ UNCHANGED results
          ELSE Raise("RuntimeError", 0) /\ UNCHANGED txs
    /\ UNCHANGED <<poolState, poolFee, callVars, txCount>>

InitializePool_Wait ==
    /\ At("iv_wait")
    /\ Mined(loc.tx_hash)
    /\ Observe(loc.tx_hash)
    /\ IF txs[loc.tx_hash].status # "success" THEN Raise("RuntimeError", 0)
       ELSE Return(HashVal(loc.tx_hash))
    /\ UNCHANGED <<poolState, poolFee, callVars, txCount>>

----
\* add_full_range_liquidity(pool_address, amount0, amount1)

\* pool.functions.fee().call(), outside the try.
AddLiquidity_Fee ==
    /\ Start("add_full_range_liquidity")
    /\ poolState # "NonExistent"
    /\ \E rpc \in {"ok", "rpc"} :
          IF rpc = "rpc" THEN Raise("raw", 0)
          ELSE /\ pc' = "al_approve_send"
               /\ loc' = [LocInit EXCEPT !.pool_fee = GetFee]
               /\ UNCHANGED results
    /\ UNCHANGED <<poolState, poolFee, callVars, txCount, txs>>

\* One turn of the approval loop up to send_raw_transaction; loc.i is the token.
AddLiquidity_ApproveSend ==
    /\ At("al_approve_send")
    /\ \E out \in {"send_failed", "sent"} :
          IF out = "sent"
          THEN /\ Broadcast("approve", IF loc.i = 0 THEN "token0" ELSE "token1",
                            ApproveGas, 0,
                            ApproveParams("nft_manager",
                                IF loc.i = 0 THEN args.amount0 ELSE args.amount1))
               /\ pc' = "al_approve_wait"
               /\ UNCHANGED results
          ELSE Raise("RuntimeError", 0) /\ UNCHANGED txs
    /\ UNCHANGED <<poolState, poolFee, callVars, txCount>>

\* Mutant: the loop goes on to the next token without awaiting the receipt.
AddLiquidity_ApproveWait_NoWait ==
    /\ At("al_approve_wait")
    /\ loc' = [loc EXCEPT !.i = loc.i + 1]
    /\ pc' = IF loc.i = 0 THEN "al_approve_send" ELSE "al_mint_send"
    /\ UNCHANGED <<poolState, poolFee, callVars, txCount, txs, results>>

\* wait_for_transaction_receipt(tx_hash): the receipt is dropped, its status
\* is not read; then the next token, or the mint after the second one.
AddLiquidity_ApproveWait ==
    /\ At("al_approve_wait")
    /\ Mined(loc.tx_hash)
    /\ Observe(loc.tx_hash)
    /\ loc' = [loc EXCEPT !.i = loc.i + 1]
    /\ pc' = IF loc.i = 0 THEN "al_approve_send" ELSE "al_mint_send"
    /\ UNCHANGED <<poolState, poolFee, callVars, txCount, results>>

AddLiquidity_MintSend ==
    /\ At("al_mint_send")
    /\ \E out \in {"send_failed", "sent"} :
          IF out = "sent"
          THEN /\ Broadcast("mint", "none", MintGas, 0,
                            MintParams(loc.pool_fee, args.amount0, args.amount1))
               /\ pc' = "al_mint_wait"
               /\ UNCHANGED results
          ELSE Raise("RuntimeError", 0) /\ UNCHANGED txs
    /\ UNCHANGED <<poolState, poolFee, callVars, txCount>>

\* What positions(position_id) and ticks(...) of the re-query may answer: a
\* failed read, or which of the two boundary ticks have liquidityGross > 0.
RequeryOutcomes == {"failed", "both", "lower_only", "upper_only", "neither"}

\* Mutant: a boundary tick found uninitialized by the re-query is an error.
AddLiquidity_MintWait_RaiseOnUninitializedTick ==
    /\ At("al_mint_wait")
    /\ Mined(loc.tx_hash)
    /\ Observe(loc.tx_hash)
    /\ IF txs[loc.tx_hash].status # "success" THEN Raise("RuntimeError", 0)
       ELSE IF ~txs[loc.tx_hash].hasEvent THEN Raise("RuntimeError", 0)
       ELSE \E requery \in RequeryOutcomes :
               IF requery # "both"
               THEN Finish("raise", NoneVal, "RuntimeError", 0,
                           [loc EXCEPT !.ticks = requery])
               ELSE Finish("return", HashVal(loc.tx_hash), "none", 0,
                           [loc EXCEPT !.ticks = requery])
    /\ UNCHANGED <<poolState, poolFee, callVars, txCount>>

\* Mutant: a receipt without the event, or a failed re-query, is put up with
\* and the hash returned.
AddLiquidity_MintWait_HashAfterSuccess ==
    /\ At("al_mint_wait")
    /\ Mined(loc.tx_hash)
    /\ Observe(loc.tx_hash)
    /\ IF txs[loc.tx_hash].status # "success" THEN Raise("RuntimeError", 0)
       ELSE IF ~txs[loc.tx_hash].hasEvent THEN Return(HashVal(loc.tx_hash))
       ELSE \E requery \in RequeryOutcomes :
               Finish("return", HashVal(loc.tx_hash), "none", 0,
                      [loc EXCEPT !.ticks = requery])
    /\ UNCHANGED <<poolState, poolFee, callVars, txCount>>

\* The receipt, the status check, the IncreaseLiquidity event and the
\* re-query of the position and its ticks (printed, not acted on).
AddLiquidity_MintWait ==
    /\ At("al_mint_wait")
    /\ Mined(loc.tx_hash)
    /\ Observe(loc.tx_hash)
    /\ IF txs[loc.tx_hash].status # "success" THEN Raise("RuntimeError", 0)
       ELSE IF ~txs[loc.tx_hash].hasEvent THEN Raise("RuntimeError", 0)
       ELSE \E requery \in RequeryOutcomes :
               IF requery = "failed"
               THEN Finish("raise", NoneVal, "RuntimeError", 0,
                           [loc EXCEPT !.ticks = requery])
               ELSE Finish("return", HashVal(loc.tx_hash), "none", 0,
                           [loc EXCEPT !.ticks = requery])
    /\ UNCHANGED <<poolState, poolFee, callVars, txCount>>

----
\* swap_tokens (exactInput) and swap_tokens_alternative (exactInputSingle):
\* the same steps, all inside one try.

\* Mutant: the swap is sent without the approval.
Swap_Fee_NoApprove(o) ==
    /\ Start(o)
    /\ poolState # "NonExistent"
    /\ \E rpc \in {"ok", "rpc"} :
          IF rpc = "rpc" THEN Raise("RuntimeError", 0)
          ELSE /\ pc' = "sw_swap_send"
               /\ loc' = [LocInit EXCEPT !.pool_fee = GetFee]
               /\ UNCHANGED results
    /\ UNCHANGED <<poolState, poolFee, callVars, txCount, txs>>

Swap_Fee(o) ==
    /\ Start(o)
    /\ poolState # "NonExistent"
    /\ \E rpc \in {"ok", "rpc"} :
          IF rpc = "rpc" THEN Raise("RuntimeError", 0)
          ELSE /\ pc' = "sw_approve_send"
               /\ loc' = [LocInit EXCEPT !.pool_fee = GetFee]
               /\ UNCHANGED results
    /\ UNCHANGED <<poolState, poolFee, callVars, txCount, txs>>

\* Mutant: both strategies approve token0, whatever token they swap in.
Swap_ApproveSend_Token0Always ==
    /\ At("sw_approve_send")
    /\ \E out \in {"send_failed", "sent"} :
          IF out = "sent"
          THEN /\ Broadcast("approve", "token0",
                            ApproveGas, 0, ApproveParams("router", args.amount_in))
               /\ pc' = "sw_approve_wait"
               /\ UNCHANGED results
          ELSE Raise("RuntimeError", 0) /\ UNCHANGED txs
    /\ UNCHANGED <<poolState, poolFee, callVars, txCount>>

\* token.functions.approve(router_address, amount_in): token0 in swap_tokens,
\* token1 in swap_tokens_alternative.
Swap_ApproveSend ==
    /\ At("sw_approve_send")
    /\ \E out \in {"send_failed", "sent"} :
          IF out = "sent"
          THEN /\ Broadcast("approve", IF op = "swap_tokens" THEN "token0" ELSE "token1",
                            ApproveGas, 0, ApproveParams("router", args.amount_in))
               /\ pc' = "sw_approve_wait"
               /\ UNCHANGED results
          ELSE Raise("RuntimeError", 0) /\ UNCHANGED txs
    /\ UNCHANGED <<poolState, poolFee, callVars, txCount>>

\* The approval's receipt is awaited and dropped.
Swap_ApproveWait ==
    /\ At("sw_approve_wait")
    /\ Mined(loc.tx_hash)
    /\ Observe(loc.tx_hash)
    /\ pc' = "sw_swap_send"
    /\ UNCHANGED <<poolState, poolFee, callVars, txCount, loc, results>>

Swap_SwapSend ==
    /\ At("sw_swap_send")
    /\ \E out \in {"send_failed", "sent"} :
          IF out = "sent"
          THEN /\ Broadcast("swap", "none", SwapGas, 0,
                            IF op = "swap_tokens"
                            THEN ExactInputParams(loc.pool_fee, args.amount_in)
                            ELSE ExactInputSingleParams("token1", "token0",
                                                        loc.pool_fee, args.amount_in))
               /\ pc' = "sw_swap_wait"
               /\ UNCHANGED results
          ELSE Raise("RuntimeError", 0) /\ UNCHANGED txs
    /\ UNCHANGED <<poolState, poolFee, callVars, txCount>>

\* raise RuntimeError(f"Swap failed: {tx_hash.hex()}"), wrapped once more.
Swap_SwapWait ==
    /\ At("sw_swap_wait")
    /\ Mined(loc.tx_hash)
    /\ Observe(loc.tx_hash)
    /\ IF txs[loc.tx_hash].status # "success" THEN Raise("RuntimeError", loc.tx_hash)
       ELSE Return(HashVal(loc.tx_hash))
    /\ UNCHANGED <<poolState, poolFee, callVars, txCount>>

----
\* swap_tokens of the archived draft: approval in its own try, then the fee
\* read and the gas estimate outside any try, then the swap.

SwapOld_ApproveSend ==
    /\ Start("swap_tokens_old")
    /\ poolState # "NonExistent"
    /\ \E out \in {"decimals_failed", "send_failed", "sent"} :
          CASE out = "sent" ->
                  /\ Broadcast("approve", "token0", ApproveGas, 0,
                               ApproveParams("router", args.amount_in))
                  /\ pc' = "so_approve_wait"
                  /\ UNCHANGED results
            [] out = "send_failed" -> Raise("RuntimeError", 0) /\ UNCHANGED txs
            [] OTHER -> Raise("raw", 0) /\ UNCHANGED txs
    /\ UNCHANGED <<poolState, poolFee, callVars, txCount>>

SwapOld_ApproveWait ==
    /\ At("so_approve_wait")
    /\ Mined(loc.tx_hash)
    /\ Observe(loc.tx_hash)
    /\ pc' = "so_swap_send"
    /\ UNCHANGED <<poolState, poolFee, callVars, txCount, loc, results>>

\* fee(), decimals(), get_block, estimate_gas (unwrapped), then the swap.
SwapOld_SwapSend ==
    /\ At("so_swap_send")
    /\ \E out \in {"estimate_failed", "send_failed", "sent"} :
       \E gas_estimate \in GasEstimates :
          CASE out = "sent" ->
                  /\ Broadcast("swap", "none", SwapOldGas(gas_estimate), gas_estimate,
                               ExactInputSingleParams("token0", "token1",
                                                      GetFee, args.amount_in))
                  /\ pc' = "so_swap_wait"
                  /\ UNCHANGED results
            [] out = "send_failed" -> Raise("RuntimeError", 0) /\ UNCHANGED txs
            [] OTHER -> Raise("raw", 0) /\ UNCHANGED txs
    /\ UNCHANGED <<poolState, poolFee, callVars, txCount>>

\* On a failed receipt: get_transaction, the replay at blockNumber - 1 in its
\* own try, and then the return of the hash all the same.
SwapOld_SwapWait ==
    /\ At("so_swap_wait")
    /\ Mined(loc.tx_hash)
    /\ Observe(loc.tx_hash)
    /\ IF txs[loc.tx_hash].status # "success"
       THEN \E diag \in {"get_transaction_failed", "replay_failed", "replay_ok"} :
               IF diag = "get_transaction_failed"
               THEN Finish("raise", NoneVal, "RuntimeError", 0,
                           [loc EXCEPT !.replay = diag])
               ELSE Finish("return", HashVal(loc.tx_hash), "none", 0,
                           [loc EXCEPT !.replay = diag])
       ELSE Return(HashVal(loc.tx_hash))
    /\ UNCHANGED <<poolState, poolFee, callVars, txCount>>

----
\* The script may find the pool in any state of its lifecycle.
Init ==
    /\ poolState \in PoolStates
    /\ poolFee = IF poolState = "NonExistent" THEN 0 ELSE CreateFee
    /\ txCount = 0
    /\ txs = <<>>
    /\ pc = "idle"
    /\ op = "create_pool"
    /\ loc = LocInit
    /\ results = <<>>
    /\ args = MainArgs
    /\ fnArgs = <<>>
    /\ fnResult = <<>>
    /\ poolView = NoPoolView
    /\ diagnosis = NoDiag
    /\ race = NoRace
    /\ eventLog = NoEventLog

Next ==
    \/ Mine
    \/ CreatePool_GetPool
    \/ CreatePool_Send
    \/ CreatePool_Wait
    \/ InitializePool_Slot0
    \/ InitializePool_Send
    \/ InitializePool_Wait
    \/ AddLiquidity_Fee
    \/ AddLiquidity_ApproveSend
    \/ AddLiquidity_ApproveWait
    \/ AddLiquidity_MintSend
    \/ AddLiquidity_MintWait
    \/ \E o \in SwapOps : Swap_Fee(o)
    \/ Swap_ApproveSend
    \/ Swap_ApproveWait
    \/ Swap_SwapSend
    \/ Swap_SwapWait

Spec == Init /\ [][Next]_vars

----
\* The archived draft (src/archive/v3_kodiak_pool_setup_old.py): its
\* swap_tokens against a pool that exists, of any fee tier.
InitArchive ==
    /\ poolState \in PoolStates \ {"NonExistent"}
    /\ poolFee \in FeeTiers
    /\ txCount = 0
    /\ txs = <<>>
    /\ pc = "idle"
    /\ op = "swap_tokens_old"
    /\ loc = LocInit
    /\ results = <<>>
    /\ args = MainArgs
    /\ fnArgs = <<>>
    /\ fnResult = <<>>
    /\ poolView = NoPoolView
    /\ diagnosis = NoDiag
    /\ race = NoRace
    /\ eventLog = NoEventLog

NextArchive ==
    \/ Mine
    \/ SwapOld_ApproveSend
    \/ SwapOld_ApproveWait
    \/ SwapOld_SwapSend
    \/ SwapOld_SwapWait

SpecArchive == InitArchive /\ [][NextArchive]_vars

----
\* Funding and swapping an initialized pool of any fee tier with any amounts:
\* the pool is the one at the pool_address the caller passes, whoever created it.

\* amount0, amount1 of add_full_range_liquidity and amount_in of the swaps.
DataArgs == {[amount0 |-> 1000, amount1 |-> 2000, amount_in |-> 500],
             [amount0 |-> 2000, amount1 |-> 1000, amount_in |-> 700]}

InitData ==
    /\ poolState = "Initialized"
    /\ poolFee \in FeeTiers
    /\ txCount = 0
    /\ txs = <<>>
    /\ pc = "idle"
    /\ op = "add_full_range_liquidity"
    /\ loc = LocInit
    /\ results = <<>>
    /\ args \in DataArgs
    /\ fnArgs = <<>>
    /\ fnResult = <<>>
    /\ poolView = NoPoolView
    /\ diagnosis = NoDiag
    /\ race = NoRace
    /\ eventLog = NoEventLog

NextData ==
    \/ Mine
    \/ AddLiquidity_Fee
    \/ AddLiquidity_ApproveSend
    \/ AddLiquidity_ApproveWait
    \/ AddLiquidity_MintSend
    \/ AddLiquidity_MintWait
    \/ \E o \in SwapOps : Swap_Fee(o)
    \/ Swap_ApproveSend
    \/ Swap_ApproveWait
    \/ Swap_SwapSend
    \/ Swap_SwapWait

SpecData == InitData /\ [][NextData]_vars

----
\* KodiakV3Setup.__init__: the token addresses are stored as
\* sorted([token1_address, token2_address]), a sort of two strings.

\* Hex digits of an address as the caller may write them (checksummed
\* addresses mix the cases), and the length of the addresses compared.
HexChars == {"0", "9", "A", "F", "a", "f"}
AddrLen == 2
\* Constructions per run.
MaxObjects == 2
Addresses == [1..AddrLen -> HexChars]

\* ord(c): the code point Python compares strings by.
Ord(c) ==
    CASE c = "0" -> 48 [] c = "9" -> 57 [] c = "A" -> 65 [] c = "F" -> 70
      [] c = "a" -> 97 [] c = "f" -> 102

\* Value of a hex digit: the case does not matter.
HexVal(c) ==
    CASE c = "0" -> 0 [] c = "9" -> 9 [] c \in {"A", "a"} -> 10 [] c \in {"F", "f"} -> 15

\* x < y of two Python strings: the first differing character decides, a
\* proper prefix is smaller.
StrLess(x, y) ==
    \/ \E i \in 1..Len(x) :
          /\ i <= Len(y)
          /\ \A j \in 1..(i - 1) : x[j] = y[j]
          /\ Ord(x[i]) < Ord(y[i])
    \/ /\ Len(x) < Len(y)
       /\ \A j \in 1..Len(x) : x[j] = y[j]

\* sorted([x, y]): stable, so [x, y] unless y < x.
Sorted2(x, y) == IF StrLess(y, x) THEN <<y, x>> ELSE <<x, y>>

\* The address a hex string denotes, as a number (the order the factory uses).
RECURSIVE AddressValue(_)
AddressValue(a) ==
    IF Len(a) = 0 THEN 0
    ELSE AddressValue(SubSeq(a, 1, Len(a) - 1)) * 16 + HexVal(a[Len(a)])

\* KodiakV3Setup(token1_address, token2_address, ...) with the pair of the
\* run in one of its two orders.
Construct ==
    /\ Len(fnResult) < MaxObjects
    /\ \E swapped \in BOOLEAN :
          LET token1_address == IF swapped THEN fnArgs[2] ELSE fnArgs[1]
              token2_address == IF swapped THEN fnArgs[1] ELSE fnArgs[2]
              stored == Sorted2(token1_address, token2_address)
          IN  fnResult' = Append(fnResult,
                  [token1_address |-> token1_address,
                   token2_address |-> token2_address,
                   token0 |-> stored[1], token1 |-> stored[2]])
    /\ UNCHANGED <<poolState, poolFee, txCount, txs, pc, op, loc, results, args, fnArgs,
                   poolView, diagnosis, race, eventLog>>

InitCtor ==
    /\ poolState = "NonExistent"
    /\ poolFee = 0
    /\ txCount = 0
    /\ txs = <<>>
    /\ pc = "idle"
    /\ op = "create_pool"
    /\ loc = LocInit
    /\ results = <<>>
    /\ args = MainArgs
    /\ fnArgs \in Addresses \X Addresses
    /\ fnResult = <<>>
    /\ poolView = NoPoolView
    /\ diagnosis = NoDiag
    /\ race = NoRace
    /\ eventLog = NoEventLog

NextCtor == Construct

SpecCtor == InitCtor /\ [][NextCtor]_vars

----
\* The path of swap_tokens: Web3.to_bytes(hexstr=token0_address) +
\* fee.to_bytes(3, 'big') + Web3.to_bytes(hexstr=token1_address).

\* Hex digits of an address (20 bytes).
AddrDigits == 40
\* Addresses whose digits repeat three characters, so that neighbouring bytes differ.
PathAddresses ==
    {[i \in 1..AddrDigits |-> <<c1, c2, c3>>[(i % 3) + 1]] : c1, c2, c3 \in {"0", "a", "F"}}
\* Fees around the byte boundaries of a 3-byte integer.
PathFees == {0, 1, 100, 255, 256, 500, 3000, 10000, 65535, 65536, 16777215}

\* Web3.to_bytes(hexstr=...): two hex digits make a byte, the case does not matter.
ToBytes(hexstr) ==
    [i \in 1..(Len(hexstr) \div 2) |->
        16 * HexVal(hexstr[2 * i - 1]) + HexVal(hexstr[2 * i])]

\* Mutant: the fee is written least significant byte first.
FeeToBytes_LittleEndian(fee) == <<fee % 256, (fee \div 256) % 256, fee \div 65536>>

\* fee.to_bytes(3, 'big')
FeeToBytes(fee) == <<fee \div 65536, (fee \div 256) % 256, fee % 256>>

EncodePath(tokenIn, fee, tokenOut) ==
    ToBytes(tokenIn) \o FeeToBytes(fee) \o ToBytes(tokenOut)

\* encoded_path of one call of swap_tokens.
BuildPath ==
    /\ fnResult = <<>>
    /\ fnResult' = EncodePath(fnArgs[1], fnArgs[2], fnArgs[3])
    /\ UNCHANGED <<poolState, poolFee, txCount, txs, pc, op, loc, results, args, fnArgs,
                   poolView, diagnosis, race, eventLog>>

InitPath ==
    /\ poolState = "Funded"
    /\ poolFee = 0
    /\ txCount = 0
    /\ txs = <<>>
    /\ pc = "idle"
    /\ op = "swap_tokens"
    /\ loc = LocInit
    /\ results = <<>>
    /\ args = MainArgs
    /\ fnArgs \in PathAddresses \X PathFees \X PathAddresses
    /\ fnResult = <<>>
    /\ poolView = NoPoolView
    /\ diagnosis = NoDiag
    /\ race = NoRace
    /\ eventLog = NoEventLog

NextPath == BuildPath

SpecPath == InitPath /\ [][NextPath]_vars

----
\* KodiakV3PoolVerification (src/archive/v3_pool_verification.py): every
\* method is a series of reads (.call()) of a pool that does not change
\* meanwhile, so a call of a method is one step.

\* The reads a method makes, and the one of them that fails in a call for a
\* reason of its own (a revert, the RPC), if any.
Queries == {"slot0", "liquidity", "tickSpacing", "ticks", "cumulatives", "positions"}
Faults == Queries \cup {"none"}

\* What a method that raised RuntimeError leaves its caller with.
Err == [ok |-> FALSE]

\* ticks(t).call()[0]: liquidityGross
LiquidityGross(t) == IF t \in poolView.liqTicks THEN 1 ELSE 0

\* liquidity().call(): the liquidity in range at the current tick
PoolLiquidity ==
    IF \E lo, hi \in poolView.liqTicks : lo <= poolView.tick /\ poolView.tick < hi
    THEN 1 ELSE 0

\* snapshotCumulativesInside(lo, hi).call() of a strict pool (as the V3 pool
\* contract is) reverts unless both ticks are initialized.
CumulativesReverts(lo, hi) ==
    poolView.strict /\ (LiquidityGross(lo) = 0 \/ LiquidityGross(hi) = 0)

Min(a, b) == IF a < b THEN a ELSE b
Max(a, b) == IF a < b THEN b ELSE a

\* amount quote[0] of a quote that answered
QuotedAmount == 1000000

\* check_active_tick()
CheckActiveTick(fault) ==
    IF fault \in {"slot0", "liquidity"} THEN Err
    ELSE [ok |-> TRUE, current_tick |-> poolView.tick,
          current_liquidity |-> PoolLiquidity]

\* verify_liquidity_range(tick_lower, tick_upper)
VerifyLiquidityRange(tick_lower, tick_upper, fault) ==
    IF fault \in {"ticks", "cumulatives"} \/ CumulativesReverts(tick_lower, tick_upper)
    THEN Err
    ELSE [ok |-> TRUE,
          tick_lower_initialized |-> LiquidityGross(tick_lower) > 0,
          tick_upper_initialized |-> LiquidityGross(tick_upper) > 0,
          tick_lower_liquidity |-> LiquidityGross(tick_lower),
          tick_upper_liquidity |-> LiquidityGross(tick_upper)]

\* check_position_initialization(position_id, owner_address)
CheckPositionInitialization(fault) ==
    IF fault \in {"positions", "ticks"} THEN Err
    ELSE [ok |-> TRUE,
          tick_lower |-> poolView.position.tick_lower,
          tick_upper |-> poolView.position.tick_upper,
          lower_tick_initialized |-> LiquidityGross(poolView.position.tick_lower) > 0,
          upper_tick_initialized |-> LiquidityGross(poolView.position.tick_upper) > 0]

\* next_tick = (current_tick // tick_spacing) * tick_spacing -+ tick_spacing
NextTick(current_tick, tick_spacing, zero_for_one) ==
    IF zero_for_one
    THEN (current_tick \div tick_spacing) * tick_spacing - tick_spacing
    ELSE (current_tick \div tick_spacing) * tick_spacing + tick_spacing

\* Mutant: a quote that fails makes verify_swap_path raise.
VerifySwapPath_QuoteFailurePropagates(zero_for_one, fault, quoteOk) ==
    LET current_state == CheckActiveTick(fault)
        next_tick == NextTick(poolView.tick, poolView.spacing, zero_for_one)
        liquidity_info == VerifyLiquidityRange(Min(poolView.tick, next_tick),
                                               Max(poolView.tick, next_tick), fault)
    IN  IF ~current_state.ok \/ fault = "tickSpacing" THEN Err
        ELSE IF ~liquidity_info.ok \/ ~quoteOk THEN Err
        ELSE [ok |-> TRUE,
              current_tick |-> current_state.current_tick,
              next_tick |-> next_tick,
              tick_spacing |-> poolView.spacing,
              liquidity_available |-> liquidity_info.tick_lower_liquidity > 0,
              can_swap |-> TRUE,
              quoted_amount_out |-> <<QuotedAmount>>]

\* verify_swap_path(amount_in, zero_for_one); quoteOk: the quote answered.
\* quoted_amount_out is <<>> for None.
VerifySwapPath(zero_for_one, fault, quoteOk) ==
    LET current_state == CheckActiveTick(fault)
        next_tick == NextTick(poolView.tick, poolView.spacing, zero_for_one)
        liquidity_info == VerifyLiquidityRange(Min(poolView.tick, next_tick),
                                               Max(poolView.tick, next_tick), fault)
    IN  IF ~current_state.ok \/ fault = "tickSpacing" THEN Err
        ELSE IF ~liquidity_info.ok THEN Err
        ELSE [ok |-> TRUE,
              current_tick |-> current_state.current_tick,
              next_tick |-> next_tick,
              tick_spacing |-> poolView.spacing,
              liquidity_available |-> liquidity_info.tick_lower_liquidity > 0,
              can_swap |-> quoteOk,
              quoted_amount_out |-> IF quoteOk THEN <<QuotedAmount>> ELSE <<>>]

\* The +-10 ticks around the current tick that run_full_diagnosis looks at.
DiagnosisWindow == 10

\* run_full_diagnosis(position_id, owner_address): no try, so the first
\* method that raises ends it.
RunFullDiagnosis(fault, quoteOk) ==
    LET pool_state == CheckActiveTick(fault)
        position_state == CheckPositionInitialization(fault)
        current_range == VerifyLiquidityRange(poolView.tick - DiagnosisWindow,
                                              poolView.tick + DiagnosisWindow, fault)
        position_range == VerifyLiquidityRange(poolView.position.tick_lower,
                                               poolView.position.tick_upper, fault)
        zero_to_one == VerifySwapPath(TRUE, fault, quoteOk)
        one_to_zero == VerifySwapPath(FALSE, fault, quoteOk)
    IN  IF ~pool_state.ok \/ ~position_state.ok THEN Err
        ELSE IF ~current_range.ok \/ ~position_range.ok THEN Err
        ELSE IF ~zero_to_one.ok \/ ~one_to_zero.ok THEN Err
        ELSE [ok |-> TRUE,
              pool_state |-> pool_state,
              position_state |-> position_state,
              current_range_liquidity |-> current_range,
              position_range_liquidity |-> position_range,
              swap_path_info |-> [zero_to_one |-> zero_to_one,
                                  one_to_zero |-> one_to_zero]]

\* Mutant: the quote is sent as a transaction of the signer.
DiagFrame_QuoteAsTransaction ==
    /\ txs' = Append(txs, [kind |-> "quote", nonce |-> GetTransactionCount,
                           status |-> "success"])
    /\ txCount' = txCount + 1
    /\ UNCHANGED <<poolState, poolFee, pc, op, loc, results, args, fnArgs, fnResult,
                   poolView, race, eventLog>>

\* The caller makes one more diagnostic call.
DiagStart == diagnosis.n < MaxCalls

\* What a diagnostic method leaves alone: everything but its own result.
DiagFrame ==
    UNCHANGED <<poolState, poolFee, txCount, txs, pc, op, loc, results, args, fnArgs,
                fnResult, poolView, race, eventLog>>

\* A diagnostic call ends: r is what the method returned (or Err: it raised).
DiagDone(o, lo, hi, zero_for_one, fault, quoteOk, r) ==
    /\ diagnosis' = [n |-> diagnosis.n + 1, op |-> o, lo |-> lo, hi |-> hi,
                     zero_for_one |-> zero_for_one, fault |-> fault, quoteOk |-> quoteOk,
                     kind |-> IF r.ok THEN "return" ELSE "raise", val |-> r]
    /\ DiagFrame

Diag_CheckActiveTick ==
    /\ DiagStart
    /\ \E fault \in {"none", "slot0", "liquidity"} :
        DiagDone("check_active_tick", 0, 0, FALSE, fault, FALSE, CheckActiveTick(fault))

Diag_VerifyLiquidityRange ==
    /\ DiagStart
    /\ \E range \in {<<poolView.tick - DiagnosisWindow, poolView.tick + DiagnosisWindow>>,
                      <<poolView.position.tick_lower, poolView.position.tick_upper>>} :
       \E fault \in {"none", "ticks", "cumulatives"} :
        DiagDone("verify_liquidity_range", range[1], range[2], FALSE, fault, FALSE,
                 VerifyLiquidityRange(range[1], range[2], fault))

Diag_CheckPositionInitialization ==
    /\ DiagStart
    /\ \E fault \in {"none", "positions", "ticks"} :
        DiagDone("check_position_initialization", 0, 0, FALSE, fault, FALSE,
                 CheckPositionInitialization(fault))

Diag_VerifySwapPath ==
    /\ DiagStart
    /\ \E zero_for_one \in BOOLEAN :
       \E fault \in Faults \ {"positions"} :
       \E quoteOk \in BOOLEAN :
        DiagDone("verify_swap_path", 0, 0, zero_for_one, fault, quoteOk,
                 VerifySwapPath(zero_for_one, fault, quoteOk))

Diag_RunFullDiagnosis ==
    /\ DiagStart
    /\ \E fault \in Faults :
       \E quoteOk \in BOOLEAN :
        DiagDone("run_full_diagnosis", 0, 0, FALSE, fault, quoteOk,
                 RunFullDiagnosis(fault, quoteOk))

\* Pools under diagnosis: the current tick, the tick spacing, the ticks with
\* liquidityGross > 0, whether snapshotCumulativesInside insists on
\* initialized ticks, and the ticks of the position asked about.
DiagTicks == {-15, -10, -5, 0, 5, 10}
DiagSpacings == {1, 10}
LiqTickSets == {{}, {MIN_TICK, MAX_TICK}, {0}, {10}, {-10, 0, 10}}
DiagPositions == {[tick_lower |-> MIN_TICK, tick_upper |-> MAX_TICK],
                  [tick_lower |-> -10, tick_upper |-> 10]}
PoolViews ==
    [tick : DiagTicks, spacing : DiagSpacings, liqTicks : LiqTickSets,
     strict : BOOLEAN, position : DiagPositions]

InitDiag ==
    /\ poolView \in PoolViews
    /\ poolState = IF poolView.liqTicks = {} THEN "Initialized" ELSE "Funded"
    /\ poolFee = CreateFee
    /\ txCount = 0
    /\ txs = <<>>
    /\ pc = "idle"
    /\ op = "create_pool"
    /\ loc = LocInit
    /\ results = <<>>
    /\ args = MainArgs
    /\ fnArgs = <<>>
    /\ fnResult = <<>>
    /\ diagnosis = NoDiag
    /\ race = NoRace
    /\ eventLog = NoEventLog

NextDiag ==
    \/ Diag_CheckActiveTick
    \/ Diag_VerifyLiquidityRange
    \/ Diag_CheckPositionInitialization
    \/ Diag_VerifySwapPath
    \/ Diag_RunFullDiagnosis

SpecDiag == InitDiag /\ [][NextDiag]_vars

----
\* Two orchestrations of the same signer running at once: two processes (or
\* threads) each inside a method of KodiakV3Setup.  Every transaction of a
\* method is built with 'nonce': get_transaction_count(account) read at that
\* moment, then signed and sent, then awaited.

Procs == {1, 2}
RaceOps == {"add_full_range_liquidity", "swap_tokens"}

\* The transactions of a method, in the order it sends them: kind and token.
RaceSteps(o) ==
    IF o = "add_full_range_liquidity"
    THEN <<[kind |-> "approve", token |-> "token0"],
           [kind |-> "approve", token |-> "token1"],
           [kind |-> "mint", token |-> "none"]>>
    ELSE <<[kind |-> "approve", token |-> "token0"],
           [kind |-> "swap", token |-> "none"]>>

\* Mutant: the signer keeps a local reservation, and a nonce held by a
\* transaction being built or in flight is not handed out again.
RaceNonce_Reserved(p) ==
    LET taken == {race.nonce[q] : q \in {r \in Procs \ {p} : race.pc[r] = "send"}}
                 \cup {txs[h].nonce : h \in {g \in 1..Len(txs) : txs[g].status = "pending"}}
    IN  CHOOSE n \in txCount..(txCount + Cardinality(taken)) :
            /\ n \notin taken
            /\ \A m \in txCount..(n - 1) : m \in taken

\* 'nonce': self.w3.eth.get_transaction_count(self.account.address)
RaceNonce(p) == GetTransactionCount

\* What the node answers to send_raw_transaction of a transaction with nonce n:
\* it refuses a nonce below the account's count; a nonce another transaction in
\* flight has it may refuse (underpriced replacement) or take (the two compete).
SendOutcomes(n) ==
    IF n < txCount THEN {"rejected"}
    ELSE IF \E h \in 1..Len(txs) : txs[h].status = "pending" /\ txs[h].nonce = n
         THEN {"pending", "rejected"}
         ELSE {"pending"}

RaceFrame == UNCHANGED <<pc, op, loc, results, poolFee, args, fnArgs, fnResult,
                         poolView, diagnosis, eventLog>>

\* build_transaction({... 'nonce': get_transaction_count(...) ...})
Race_Build(p) ==
    /\ race.pc[p] = "build"
    /\ race' = [race EXCEPT !.pc[p] = "send", !.nonce[p] = RaceNonce(p)]
    /\ UNCHANGED <<poolState, txCount, txs>>
    /\ RaceFrame

\* sign_transaction + send_raw_transaction
Race_Send(p) ==
    /\ race.pc[p] = "send"
    /\ \E s \in SendOutcomes(race.nonce[p]) :
          txs' = Append(txs, [kind |-> RaceSteps(race.op[p])[race.step[p]].kind,
                              token |-> RaceSteps(race.op[p])[race.step[p]].token,
                              op |-> race.op[p], proc |-> p,
                              nonce |-> race.nonce[p], status |-> s])
    /\ race' = [race EXCEPT !.pc[p] = "wait", !.tx[p] = Len(txs) + 1]
    /\ UNCHANGED <<poolState, txCount>>
    /\ RaceFrame

\* The chain mines the transaction in flight whose nonce is the account's
\* count; every other transaction in flight with that nonce is dropped.
Race_Mine ==
    /\ \E h \in 1..Len(txs) :
          /\ txs[h].status = "pending"
          /\ txs[h].nonce = txCount
          /\ \E s \in StatusOutcomes(txs[h].kind) :
                /\ txs' = [g \in 1..Len(txs) |->
                             IF g = h THEN [txs[g] EXCEPT !.status = s]
                             ELSE IF txs[g].status = "pending" /\ txs[g].nonce = txCount
                                  THEN [txs[g] EXCEPT !.status = "rejected"]
                                  ELSE txs[g]]
                /\ poolState' = IF s = "success" THEN Effect(txs[h].kind) ELSE poolState
    /\ txCount' = txCount + 1
    /\ UNCHANGED race
    /\ RaceFrame

\* send_raw_transaction raised, or wait_for_transaction_receipt returned (or
\* gave up on a dropped transaction): the method raises on a transaction that
\* was refused or dropped; otherwise it goes on to its next transaction (it
\* does not look at the receipt of an approval), and after its last one it is
\* done, returning or raising as the receipt says.
Race_Wait(p) ==
    /\ race.pc[p] = "wait"
    /\ txs[race.tx[p]].status # "pending"
    /\ race' =
         IF txs[race.tx[p]].status = "rejected"
         THEN [race EXCEPT !.pc[p] = "raised"]
         ELSE IF race.step[p] = Len(RaceSteps(race.op[p]))
              THEN [race EXCEPT !.pc[p] = "done"]
              ELSE [race EXCEPT !.pc[p] = "build", !.step[p] = race.step[p] + 1]
    /\ UNCHANGED <<poolState, txCount, txs>>
    /\ RaceFrame

InitRace ==
    /\ poolState \in {"Initialized", "Funded"}
    /\ poolFee = CreateFee
    /\ txCount = 0
    /\ txs = <<>>
    /\ pc = "idle"
    /\ op = "create_pool"
    /\ loc = LocInit
    /\ results = <<>>
    /\ args = MainArgs
    /\ fnArgs = <<>>
    /\ fnResult = <<>>
    /\ poolView = NoPoolView
    /\ diagnosis = NoDiag
    /\ eventLog = NoEventLog
    /\ \E ops \in [Procs -> RaceOps] :
          race = [op |-> ops, pc |-> [p \in Procs |-> "build"],
                  step |-> [p \in Procs |-> 1], nonce |-> [p \in Procs |-> 0],
                  tx |-> [p \in Procs |-> 0]]

NextRace ==
    \/ \E p \in Procs : Race_Build(p)
    \/ \E p \in Procs : Race_Send(p)
    \/ Race_Mine
    \/ \E p \in Procs : Race_Wait(p)

SpecRace == InitRace /\ [][NextRace]_vars

----
\* main(): one try around the calls, in the order of the file; a call is made
\* when its line is not commented out (as the file stands create_pool and
\* initialize_V3pool are, the funding and the swaps are not), and the except
\* of the try prints the error and ends the run.

\* Position of a call in main's try block.
MainOrder(o) ==
    CASE o = "create_pool" -> 1
      [] o = "initialize_V3pool" -> 2
      [] o = "add_full_range_liquidity" -> 3
      [] o = "swap_tokens" -> 4
      [] o = "swap_tokens_alternative" -> 5

\* Mutant: the error of a call is caught around that call alone.
MainAborted_Never == FALSE

\* An exception left a call: control is in except Exception of main.
MainAborted == \E c \in 1..Len(results) : results[c].kind = "raise"

\* The try block has reached the line of o.
MainReaches(o) ==
    /\ ~MainAborted
    /\ \A c \in 1..Len(results) : MainOrder(results[c].op) < MainOrder(o)

Main_CreatePool == MainReaches("create_pool") /\ CreatePool_GetPool
Main_InitializePool == MainReaches("initialize_V3pool") /\ InitializePool_Slot0
Main_AddLiquidity == MainReaches("add_full_range_liquidity") /\ AddLiquidity_Fee
Main_Swap(o) == MainReaches(o) /\ Swap_Fee(o)

NextMain ==
    \/ Mine
    \/ Main_CreatePool
    \/ CreatePool_Send
    \/ CreatePool_Wait
    \/ Main_InitializePool
    \/ InitializePool_Send
    \/ InitializePool_Wait
    \/ Main_AddLiquidity
    \/ AddLiquidity_ApproveSend
    \/ AddLiquidity_ApproveWait
    \/ AddLiquidity_MintSend
    \/ AddLiquidity_MintWait
    \/ \E o \in SwapOps : Main_Swap(o)
    \/ Swap_ApproveSend
    \/ Swap_ApproveWait
    \/ Swap_SwapSend
    \/ Swap_SwapWait

SpecMain == Init /\ [][NextMain]_vars

----
\* create_pool while another actor may create the pool of (token0, token1,
\* fee) with a transaction of its own.

\* The other actor's createPool is mined: the factory registers the pool.
\* race keeps the caller's invocation and position at that moment.
Other_CreatePool ==
    /\ poolState = "NonExistent"
    /\ race = NoRace
    /\ poolState' = "Uninitialized"
    /\ poolFee' = CreateFee
    /\ race' = [call |-> CurCall, pc |-> pc]
    /\ UNCHANGED <<txCount, txs, pc, op, loc, results, args, fnArgs, fnResult,
                   poolView, diagnosis, eventLog>>

NextRival ==
    \/ Mine
    \/ CreatePool_GetPool
    \/ CreatePool_Send
    \/ CreatePool_Wait
    \/ Other_CreatePool

SpecRival == Init /\ [][NextRival]_vars

----
\* run_full_diagnosis(position_id, owner_address) while other actors trade:
\* the method is a sequence of calls of the other methods, each reading the
\* pool when it runs; diagnosis keeps the line reached, the report so far, the
\* tick the pool had at each read of slot0, and the number of trades so far.

\* diagnosis = {}
EmptyReport ==
    [pool_state |-> Err, position_state |-> Err, current_range_liquidity |-> Err,
     position_range_liquidity |-> Err,
     swap_path_info |-> [zero_to_one |-> Err, one_to_zero |-> Err]]

SnapFrame ==
    UNCHANGED <<poolState, poolFee, txCount, txs, pc, op, loc, results, args, fnArgs,
                fnResult, race, eventLog>>

\* The calls of run_full_diagnosis in the order it makes them, and its return.
SnapSteps == <<"pool_state", "position_state", "current_range_liquidity",
               "position_range_liquidity", "zero_to_one", "one_to_zero", "done">>
SnapAfter(p) == SnapSteps[(CHOOSE i \in 1..Len(SnapSteps) : SnapSteps[i] = p) + 1]

\* The method is about to make call p.
SnapAt(p) == diagnosis.pc = p

\* r is what the call of this step returned: stored by put, or the whole
\* diagnosis raises.
SnapStep(r, put, seen) ==
    /\ diagnosis' =
         IF r.ok
         THEN [diagnosis EXCEPT !.pc = SnapAfter(diagnosis.pc),
                                !.report = put, !.seen = seen]
         ELSE [diagnosis EXCEPT !.pc = "raised"]
    /\ UNCHANGED poolView
    /\ SnapFrame

\* Mutant: verify_swap_path is handed the tick run_full_diagnosis read first.
SnapSwapPath_CachedTick(zero_for_one, quoteOk) ==
    LET r == VerifySwapPath(zero_for_one, "none", quoteOk)
    IN  IF r.ok THEN [r EXCEPT !.current_tick = diagnosis.report.pool_state.current_tick]
        ELSE r

\* self.verify_swap_path(1000000, zero_for_one): reads slot0 itself.
SnapSwapPath(zero_for_one, quoteOk) == VerifySwapPath(zero_for_one, "none", quoteOk)

\* diagnosis['pool_state'] = self.check_active_tick()
Snap_PoolState ==
    /\ SnapAt("pool_state")
    /\ SnapStep(CheckActiveTick("none"),
                [diagnosis.report EXCEPT !.pool_state = CheckActiveTick("none")],
                Append(diagnosis.seen, poolView.tick))

\* diagnosis['position_state'] = self.check_position_initialization(...)
Snap_PositionState ==
    /\ SnapAt("position_state")
    /\ SnapStep(CheckPositionInitialization("none"),
                [diagnosis.report EXCEPT
                    !.position_state = CheckPositionInitialization("none")],
                diagnosis.seen)

\* verify_liquidity_range(current_tick - 10, current_tick + 10), current_tick
\* being the one in diagnosis['pool_state']
Snap_CurrentRange ==
    /\ SnapAt("current_range_liquidity")
    /\ LET r == VerifyLiquidityRange(
                    diagnosis.report.pool_state.current_tick - DiagnosisWindow,
                    diagnosis.report.pool_state.current_tick + DiagnosisWindow, "none")
       IN  SnapStep(r, [diagnosis.report EXCEPT !.current_range_liquidity = r],
                    diagnosis.seen)

\* verify_liquidity_range(position_lower, position_upper)
Snap_PositionRange ==
    /\ SnapAt("position_range_liquidity")
    /\ LET r == VerifyLiquidityRange(diagnosis.report.position_state.tick_lower,
                                     diagnosis.report.position_state.tick_upper, "none")
       IN  SnapStep(r, [diagnosis.report EXCEPT !.position_range_liquidity = r],
                    diagnosis.seen)

\* 'zero_to_one': self.verify_swap_path(1000000, True)
Snap_ZeroToOne ==
    /\ SnapAt("zero_to_one")
    /\ \E quoteOk \in BOOLEAN :
          SnapStep(SnapSwapPath(TRUE, quoteOk),
                   [diagnosis.report EXCEPT
                       !.swap_path_info.zero_to_one = SnapSwapPath(TRUE, quoteOk)],
                   Append(diagnosis.seen, poolView.tick))

\* 'one_to_zero': self.verify_swap_path(1000000, False)
Snap_OneToZero ==
    /\ SnapAt("one_to_zero")
    /\ \E quoteOk \in BOOLEAN :
          SnapStep(SnapSwapPath(FALSE, quoteOk),
                   [diagnosis.report EXCEPT
                       !.swap_path_info.one_to_zero = SnapSwapPath(FALSE, quoteOk)],
                   Append(diagnosis.seen, poolView.tick))

\* A trade of another actor, mined between two calls of the diagnosis, moves
\* the pool's current tick.
Other_Trade ==
    /\ diagnosis.pc \notin {"pool_state", "done", "raised"}
    /\ diagnosis.trades < MaxTrades
    /\ \E t \in DiagTicks \ {poolView.tick} :
          poolView' = [poolView EXCEPT !.tick = t]
    /\ diagnosis' = [diagnosis EXCEPT !.trades = diagnosis.trades + 1]
    /\ SnapFrame

InitSnap ==
    /\ poolView \in PoolViews
    /\ poolState = IF poolView.liqTicks = {} THEN "Initialized" ELSE "Funded"
    /\ poolFee = CreateFee
    /\ txCount = 0
    /\ txs = <<>>
    /\ pc = "idle"
    /\ op = "create_pool"
    /\ loc = LocInit
    /\ results = <<>>
    /\ args = MainArgs
    /\ fnArgs = <<>>
    /\ fnResult = <<>>
    /\ diagnosis = [pc |-> "pool_state", report |-> EmptyReport, seen |-> <<>>, trades |-> 0]
    /\ race = NoRace
    /\ eventLog = NoEventLog

NextSnap ==
    \/ Snap_PoolState
    \/ Snap_PositionState
    \/ Snap_CurrentRange
    \/ Snap_PositionRange
    \/ Snap_ZeroToOne
    \/ Snap_OneToZero
    \/ Other_Trade

SpecSnap == InitSnap /\ [][NextSnap]_vars

----
\* The event-log queries: query_event_logs(pool_address) and
\* query_single_event(pool_address, event_name).  eventLog keeps the chain
\* head, the event names of ./abis/pool_abi.json in the order of its entries,
\* every get_logs request made, and what the last method call came to.

\* initialization_block = 9593217 in query_event_logs
initialization_block == 9593217
\* start_block = 9593217 in query_single_event
start_block == 9593217

\* self.w3.eth.block_number
BlockNumber == eventLog.head

\* Chain heads: below, at and past the start block.
LogHeads == <<9593000, 9593217, 9593218, 12000000>>

\* Event entries of a pool ABI: that of a V3 pool, and one without Mint.
PoolAbis ==
    {<<"Initialize", "Mint", "Collect", "Burn", "Swap", "Flash">>,
     <<"Swap", "Initialize", "Burn">>}

\* Event names query_single_event is called with ('Swap' in main).
EventNames == {"Swap", "Burn", "Transfer"}

InAbi(event_name) == \E i \in 1..Len(eventLog.abi) : eventLog.abi[i] = event_name

\* The entries query_event_logs asks for, in ABI order.
WantedEvents == SelectSeq(eventLog.abi, LAMBDA e : e \in {"Swap", "Initialize", "Mint"})

\* Mutant: the range starts at the genesis block.
GetLogsRange_FromGenesis(event_name, from_block, latest_block) ==
    [event |-> event_name, from_block |-> 0, to_block |-> latest_block,
     head |-> BlockNumber, call |-> eventLog.n + 1]

\* event.get_logs(from_block=..., to_block=...): the request, with the block
\* number the method read from the chain and the method call that made it.
GetLogsRange(event_name, from_block, latest_block) ==
    [event |-> event_name, from_block |-> from_block, to_block |-> latest_block,
     head |-> BlockNumber, call |-> eventLog.n + 1]

\* Values the two methods come to.
LogsNone == [t |-> "none", event |-> "", keys |-> {}]
LogsList(event_name) == [t |-> "list", event |-> event_name, keys |-> {}]
LogsDict(keys) == [t |-> "dict", event |-> "", keys |-> keys]

LogFrame ==
    UNCHANGED <<poolState, poolFee, txCount, txs, pc, op, loc, results, args, fnArgs,
                fnResult, poolView, diagnosis, race>>

\* A method call ends: requests are the get_logs it made, rejected whether
\* the provider rejected the last of them.
LogDone(o, event_name, requests, rejected, kind, val) ==
    /\ eventLog' = [eventLog EXCEPT
                      !.n = eventLog.n + 1,
                      !.queries = eventLog.queries \o requests,
                      !.last = [op |-> o, event_name |-> event_name,
                                rejected |-> rejected, kind |-> kind, val |-> val]]
    /\ LogFrame

\* query_event_logs: one get_logs per wanted entry, nothing caught.  The
\* provider answers all of them, or rejects the k-th and the exception leaves
\* the method.
Query_EventLogs ==
    /\ eventLog.n < MaxCalls
    /\ LET latest_block == BlockNumber
           request(e) == GetLogsRange(e, initialization_block, latest_block)
       IN  \/ LogDone("query_event_logs", "",
                      [i \in 1..Len(WantedEvents) |-> request(WantedEvents[i])],
                      FALSE, "return",
                      LogsDict({WantedEvents[i] : i \in 1..Len(WantedEvents)}))
           \/ \E k \in 1..Len(WantedEvents) :
                 LogDone("query_event_logs", "",
                         [i \in 1..k |-> request(WantedEvents[i])],
                         TRUE, "raise", LogsNone)

\* Mutant: the except of query_single_event raises again.
Query_SingleEvent_Reraises ==
    /\ eventLog.n < MaxCalls
    /\ \E event_name \in EventNames :
          LET end_block == BlockNumber
              request == GetLogsRange(event_name, start_block, end_block)
          IN  IF ~InAbi(event_name)
              THEN LogDone("query_single_event", event_name, <<>>, FALSE, "raise", LogsNone)
              ELSE \/ LogDone("query_single_event", event_name, <<request>>,
                              FALSE, "return", LogsList(event_name))
                   \/ LogDone("query_single_event", event_name, <<request>>,
                              TRUE, "raise", LogsNone)

\* query_single_event: getattr(pool.events, event_name) outside the try (an
\* event the ABI does not have raises there, before any request), then one
\* get_logs inside it; the except prints and the method ends without a return.
Query_SingleEvent ==
    /\ eventLog.n < MaxCalls
    /\ \E event_name \in EventNames :
          LET end_block == BlockNumber
              request == GetLogsRange(event_name, start_block, end_block)
          IN  IF ~InAbi(event_name)
              THEN LogDone("query_single_event", event_name, <<>>, FALSE, "raise", LogsNone)
              ELSE \/ LogDone("query_single_event", event_name, <<request>>,
                              FALSE, "return", LogsList(event_name))
                   \/ LogDone("query_single_event", event_name, <<request>>,
                              TRUE, "return", LogsNone)

\* The chain grows between two method calls.
Chain_NewBlocks ==
    /\ \E i \in 1..(Len(LogHeads) - 1) :
          /\ eventLog.head = LogHeads[i]
          /\ eventLog' = [eventLog EXCEPT !.head = LogHeads[i + 1]]
    /\ LogFrame

InitLogs ==
    /\ poolState = "Initialized"
    /\ poolFee = CreateFee
    /\ txCount = 0
    /\ txs = <<>>
    /\ pc = "idle"
    /\ op = "create_pool"
    /\ loc = LocInit
    /\ results = <<>>
    /\ args = MainArgs
    /\ fnArgs = <<>>
    /\ fnResult = <<>>
    /\ poolView = NoPoolView
    /\ diagnosis = NoDiag
    /\ race = NoRace
    /\ \E i \in 1..Len(LogHeads) : \E abi \in PoolAbis :
          eventLog = [head |-> LogHeads[i], abi |-> abi, n |-> 0, queries |-> <<>>,
                      last |-> [op |-> "none", event_name |-> "", rejected |-> FALSE,
                                kind |-> "return", val |-> LogsNone]]

NextLogs ==
    \/ Query_EventLogs
    \/ Query_SingleEvent
    \/ Chain_NewBlocks

SpecLogs == InitLogs /\ [][NextLogs]_vars

----
\* Properties.

Finished == 1..Len(results)
Hashes == 1..Len(txs)
ApprovalsOfCall(c) == {h \in TxsOfCall(c) : txs[h].kind = "approve"}
\* The transactions whose failure is the failure of their operation.
StateChanging == {"createPool", "initialize", "mint", "swap"}

\* C1: a create_pool whose existence check read a non-zero address returns
\* exactly that address and broadcasts no transaction.
C1_ExistingPoolShortCircuit ==
    \A c \in Finished :
        (results[c].op = "create_pool"
            /\ results[c].loc.existing \notin {"", ZERO_ADDRESS})
        => /\ results[c].kind = "return"
           /\ results[c].val = AddrVal(results[c].loc.existing)
           /\ TxsOfCall(c) = {}

C1_Witness ==
    \E c \in Finished :
        /\ results[c].op = "create_pool"
        /\ results[c].loc.existing = POOL
        /\ results[c].kind = "return"

\* C2: two create_pool calls in sequence, the first finding no pool and
\* returning an address, the second reading the factory: the second returns
\* the same address and broadcasts nothing, and exactly one createPool
\* transaction was broadcast by the two.
C2_CreatePoolIdempotent ==
    \A c \in Finished :
        (c + 1 \in Finished
            /\ results[c].op = "create_pool" /\ results[c + 1].op = "create_pool"
            /\ results[c].loc.existing = ZERO_ADDRESS
            /\ results[c].kind = "return"
            /\ results[c + 1].loc.existing # "")
        => /\ results[c + 1].kind = "return"
           /\ results[c + 1].val = results[c].val
           /\ results[c].val.t = "addr"
           /\ TxsOfCall(c + 1) = {}
           /\ Cardinality({h \in TxsOfCall(c) \cup TxsOfCall(c + 1) :
                              txs[h].kind = "createPool"}) = 1

C2_Witness ==
    \E c \in Finished :
        /\ c + 1 \in Finished
        /\ results[c].op = "create_pool" /\ results[c + 1].op = "create_pool"
        /\ results[c].loc.existing = ZERO_ADDRESS
        /\ results[c].kind = "return" /\ results[c + 1].kind = "return"
        /\ results[c + 1].val = AddrVal(POOL)

\* C3 as stated: initialize_V3pool on a pool whose slot0 read succeeds returns
\* the pool's existing sqrt price and broadcasts no transaction.
C3_ReturnsExistingPrice ==
    \A c \in Finished :
        (results[c].op = "initialize_V3pool" /\ results[c].loc.slot0 = "ok")
        => /\ results[c].kind = "return"
           /\ results[c].val = PriceVal(SqrtPriceX96)
           /\ TxsOfCall(c) = {}

\* C3 amended: initialize_V3pool on a pool whose slot0 read succeeds returns
\* None (the price is read and printed, not returned) and broadcasts no
\* transaction.
C3_InitializedPoolNoOp ==
    \A c \in Finished :
        (results[c].op = "initialize_V3pool" /\ results[c].loc.slot0 = "ok")
        => /\ results[c].kind = "return"
           /\ results[c].val = NoneVal
           /\ TxsOfCall(c) = {}

C3_Witness ==
    \E c \in Finished :
        /\ results[c].op = "initialize_V3pool"
        /\ results[c].loc.slot0 = "ok"
        /\ poolState \in {"Initialized", "Funded"}

\* C4: an initialize transaction is broadcast only after a slot0 read that
\* failed with the uninitialized-pool signature, never after a read that
\* failed for another reason.
C4_InitializeOnlyWhenUninitialized ==
    \A h \in Hashes : txs[h].kind = "initialize" => txs[h].slot0 = "uninit"

\* C5: add_full_range_liquidity broadcasts its approvals and its mint only
\* for a pool that is initialized (its precondition, were it verified by a
\* read before the transactions, holds when they are sent).
C5_FundingOnlyWhenInitialized ==
    \A h \in Hashes :
        txs[h].op = "add_full_range_liquidity"
        => txs[h].stateAtSend \in {"Initialized", "Funded"}

C7_ApprovalsSequential ==
    /\ (pc = "al_approve_send" /\ loc.i = 1)
       => /\ loc.tx_hash \in Hashes
          /\ txs[loc.tx_hash].token = "token0"
          /\ txs[loc.tx_hash].observed /\ txs[loc.tx_hash].status # "pending"
    /\ \A h \in Hashes :
          txs[h].op = "add_full_range_liquidity" =>
             /\ (txs[h].kind = "approve" /\ txs[h].token = "token1")
                => \E g \in ApprovalsOfCall(txs[h].call) :
                      /\ g < h /\ txs[g].token = "token0"
                      /\ txs[g].observed /\ txs[g].status # "pending"
             /\ txs[h].kind = "mint"
                => /\ {txs[g].token : g \in ApprovalsOfCall(txs[h].call)} = {"token0", "token1"}
                   /\ \A g \in ApprovalsOfCall(txs[h].call) :
                         g < h /\ txs[g].observed /\ txs[g].status # "pending"

C7_Witness ==
    \E h \in Hashes :
        /\ txs[h].op = "add_full_range_liquidity"
        /\ txs[h].kind = "mint"
        /\ txs[h].status = "success"

\* C8: a mint or a swap is broadcast only when every approval of its
\* invocation succeeded.
C8_FailedApprovalBlocks ==
    \A h \in Hashes :
        txs[h].kind \in {"mint", "swap"}
        => \A g \in ApprovalsOfCall(txs[h].call) : txs[g].status = "success"

\* C9: in swap_tokens and swap_tokens_alternative a swap transaction is
\* broadcast only after an approval of the same invocation was broadcast and
\* its receipt observed.
C9_ApprovalAwaitedBeforeSwap ==
    \A h \in Hashes :
        (txs[h].kind = "swap" /\ txs[h].op \in SwapOps)
        => \E g \in ApprovalsOfCall(txs[h].call) :
              g < h /\ txs[g].observed /\ txs[g].status # "pending"

C9_Witness ==
    /\ \E h \in Hashes : txs[h].kind = "swap" /\ txs[h].op = "swap_tokens"
    /\ \E h \in Hashes : txs[h].kind = "swap" /\ txs[h].op = "swap_tokens_alternative"

\* C10: an operation whose state-changing transaction got a receipt that is
\* not success raises, and the error carries the hash of that transaction.
C10_FailedReceiptRaisesWithHash ==
    \A c \in Finished :
        \A h \in TxsOfCall(c) :
            (txs[h].kind \in StateChanging /\ txs[h].status = "failed")
            => /\ results[c].kind = "raise"
               /\ results[c].errHash = h

\* The operations that send one transaction: create_pool, initialize_V3pool.
SingleTxOps == {"create_pool", "initialize_V3pool"}
MintsOfAddLiquidity ==
    {h \in Hashes : txs[h].kind = "mint" /\ txs[h].op = "add_full_range_liquidity"}
SwapsOfSwapOps == {h \in Hashes : txs[h].kind = "swap" /\ txs[h].op \in SwapOps}

\* C11: the 'gas' of every broadcast createPool transaction is the gas
\* estimate of the call with the 20% buffer, int(estimate * 1.2), and is not
\* the raw estimate.
C11_GasIsBufferedEstimate ==
    \A h \in Hashes :
        txs[h].kind = "createPool"
        => /\ txs[h].gas = GasLimit(txs[h].estimate)
           /\ txs[h].gas # txs[h].estimate

\* C12: an invocation of create_pool or initialize_V3pool broadcasts at most
\* one transaction; it is at its estimate-and-send step only while it has
\* broadcast nothing; and once its transaction failed the finished invocation
\* has raised.
C12_AtMostOneTxNoRetry ==
    /\ \A h \in Hashes :
          txs[h].op \in SingleTxOps
          => /\ TxsOfCall(txs[h].call) = {h}
             /\ txs[h].kind \in StateChanging
             /\ (txs[h].status = "failed" /\ txs[h].call \in Finished)
                => results[txs[h].call].kind = "raise"
    /\ pc \in {"cp_send", "iv_send"} => TxsOfCall(CurCall) = {}
    /\ \A c \in Finished :
          results[c].op \in SingleTxOps => Cardinality(TxsOfCall(c)) <= 1

C12_Witness ==
    \E c \in Finished :
        /\ results[c].op = "create_pool"
        /\ results[c].kind = "raise"
        /\ \E h \in TxsOfCall(c) : txs[h].status = "failed" /\ txs[h].observed

\* C13: when the swap receipt of the archived swap_tokens is not success and
\* the replay at the parent block ran (it succeeded, or it failed and the
\* failure was swallowed), the caller gets an error, not a normal return.
C13_ReplayDoesNotMaskFailure ==
    \A c \in Finished :
        (results[c].op = "swap_tokens_old"
            /\ results[c].loc.replay \in {"replay_ok", "replay_failed"})
        => /\ txs[results[c].loc.tx_hash].status = "failed"
           /\ results[c].kind = "raise"

C15_CanonicalNumericOrder ==
    \A i \in 1..Len(fnResult) :
        /\ AddressValue(fnResult[i].token1_address) # AddressValue(fnResult[i].token2_address)
           => AddressValue(fnResult[i].token0) < AddressValue(fnResult[i].token1)
        /\ \A j \in 1..Len(fnResult) :
              (fnResult[i].token1_address = fnResult[j].token2_address
                  /\ fnResult[i].token2_address = fnResult[j].token1_address)
              => /\ fnResult[i].token0 = fnResult[j].token0
                 /\ fnResult[i].token1 = fnResult[j].token1

\* C16: every mint transaction of add_full_range_liquidity has
\* tickLower = -887272 and tickUpper = 887272, whatever the fee tier (and so
\* the tick spacing) of the pool and whatever the amounts.
C16_FullRangeTicks ==
    \A h \in MintsOfAddLiquidity :
        /\ txs[h].params.tickLower = -887272
        /\ txs[h].params.tickUpper = 887272

C16_Witness ==
    \E h \in MintsOfAddLiquidity :
        /\ poolFee = 3000
        /\ TickSpacingOf(txs[h].params.fee) = 60
        /\ txs[h].params.amount0Desired # txs[h].params.amount1Desired

\* C17: every mint transaction of add_full_range_liquidity asks for a
\* position with tickLower < tickUpper, both within [MIN_TICK, MAX_TICK], and
\* both exact multiples of the tick spacing of the pool.
C17_PositionInvariant ==
    \A h \in MintsOfAddLiquidity :
        /\ txs[h].params.tickLower < txs[h].params.tickUpper
        /\ txs[h].params.tickLower >= -887272
        /\ txs[h].params.tickUpper <= 887272
        /\ (0 - txs[h].params.tickLower) % TickSpacingOf(poolFee) = 0
        /\ txs[h].params.tickUpper % TickSpacingOf(poolFee) = 0

\* C18: the fee of the mint parameters of add_full_range_liquidity, and the
\* fee of the swap of swap_tokens (in its path) and of swap_tokens_alternative,
\* is the fee of the pool, as its fee() answers in that invocation.
C18_FeeIsReadFromPool ==
    /\ \A h \in MintsOfAddLiquidity \cup SwapsOfSwapOps : txs[h].params.fee = poolFee
    /\ \A h \in SwapsOfSwapOps :
          txs[h].op = "swap_tokens" => txs[h].params.path[2] = poolFee
    /\ pc \in {"al_approve_send", "al_approve_wait", "al_mint_send",
                "sw_approve_send", "sw_approve_wait", "sw_swap_send"}
       => loc.pool_fee = poolFee

C18_Witness ==
    /\ poolFee = 500
    /\ \E h \in MintsOfAddLiquidity : txs[h].params.fee = 500
    /\ \E h \in SwapsOfSwapOps : txs[h].params.fee = 500

\* C19: the mint of add_full_range_liquidity carries amount0Desired = amount0,
\* amount1Desired = amount1, amount0Min = amount1Min = 0 and a deadline of the
\* latest block's timestamp at build time plus 1200; the swaps of swap_tokens
\* and swap_tokens_alternative carry the same deadline and amountOutMinimum = 0.
C19_AmountsAndDeadline ==
    /\ \A h \in MintsOfAddLiquidity :
          /\ txs[h].params.amount0Desired = args.amount0
          /\ txs[h].params.amount1Desired = args.amount1
          /\ txs[h].params.amount0Min = 0
          /\ txs[h].params.amount1Min = 0
          /\ txs[h].params.deadline = txs[h].timestamp + 1200
    /\ \A h \in SwapsOfSwapOps :
          /\ txs[h].params.deadline = txs[h].timestamp + 1200
          /\ txs[h].params.amountOutMinimum = 0

C19_Witness ==
    /\ args.amount0 # args.amount1
    /\ \E h \in MintsOfAddLiquidity : txs[h].timestamp > 1700000000
    /\ \E h \in SwapsOfSwapOps :
          txs[h].op = "swap_tokens_alternative" /\ txs[h].timestamp > 1700000000

\* C20: the re-query of the position and its boundary ticks happens only after
\* a mint receipt that is success, and an add_full_range_liquidity whose
\* re-query found a boundary tick uninitialized returns the hash of the mint
\* transaction and does not raise.
C20_UninitializedTickIsNotFatal ==
    \A c \in Finished :
        (results[c].op = "add_full_range_liquidity" /\ results[c].loc.ticks # "none")
        => /\ txs[results[c].loc.tx_hash].kind = "mint"
           /\ txs[results[c].loc.tx_hash].status = "success"
           /\ results[c].loc.ticks \in {"lower_only", "upper_only", "neither"}
              => /\ results[c].kind = "return"
                 /\ results[c].val = HashVal(results[c].loc.tx_hash)

C20_Witness ==
    \E c \in Finished :
        /\ results[c].op = "add_full_range_liquidity"
        /\ results[c].loc.ticks = "neither"
        /\ results[c].kind = "return"

\* C21: the swap of swap_tokens_alternative is an exactInputSingle whose
\* parameter record has the two pool tokens as tokenIn and tokenOut, the
\* pool's fee, the signer as recipient, the requested amount as amountIn,
\* amountOutMinimum = 0 and sqrtPriceLimitX96 = 0.
C21_SingleHopParams ==
    \A h \in Hashes :
        (txs[h].kind = "swap" /\ txs[h].op = "swap_tokens_alternative")
        => /\ txs[h].params.tokenIn = "token1"
           /\ txs[h].params.tokenOut = "token0"
           /\ txs[h].params.fee = poolFee
           /\ txs[h].params.recipient = "account"
           /\ txs[h].params.amountIn = args.amount_in
           /\ txs[h].params.amountOutMinimum = 0
           /\ txs[h].params.sqrtPriceLimitX96 = 0

C21_Witness ==
    \E h \in Hashes :
        /\ txs[h].kind = "swap" /\ txs[h].op = "swap_tokens_alternative"
        /\ txs[h].status = "success"
        /\ poolFee = 10000

\* C22: the path of swap_tokens is 43 bytes; its first 20 bytes are the bytes
\* of token0_address, the next 3 the fee as a big-endian number, the last 20
\* the bytes of token1_address, for every fee below 2^24.
C22_PathRoundTrip ==
    fnResult # <<>>
    => /\ Len(fnResult) = 43
       /\ \A i \in 1..43 : fnResult[i] \in 0..255
       /\ \A i \in 1..20 :
             /\ fnResult[i] = 16 * HexVal(fnArgs[1][2 * i - 1]) + HexVal(fnArgs[1][2 * i])
             /\ fnResult[23 + i] = 16 * HexVal(fnArgs[3][2 * i - 1]) + HexVal(fnArgs[3][2 * i])
       /\ fnResult[21] * 65536 + fnResult[22] * 256 + fnResult[23] = fnArgs[2]

C22_Witness ==
    /\ fnResult # <<>>
    /\ fnArgs[2] = 16777215
    /\ fnArgs[1] # fnArgs[3]

\* The last diagnostic call was method o.
Diagnosed(o) == diagnosis.n > 0 /\ diagnosis.op = o

\* C23: no step of the diagnostic engine changes the pool, the transactions
\* broadcast or the signer's transaction count.
C23_DiagnosticsReadOnly == [][UNCHANGED <<poolState, poolFee, txCount, txs, poolView>>]_vars

C23_Witness ==
    /\ diagnosis.n = MaxCalls
    /\ diagnosis.op = "run_full_diagnosis"
    /\ diagnosis.kind = "return"
    /\ txs = <<>> /\ txCount = 0

\* C24: the next_tick verify_swap_path returns is a multiple of the tick
\* spacing; for zero_for_one it is the greatest one strictly below the
\* current tick, otherwise the least one strictly above it.
C24_NextTickIsNextBoundary ==
    (Diagnosed("verify_swap_path") /\ diagnosis.kind = "return")
    => /\ diagnosis.val.next_tick % diagnosis.val.tick_spacing = 0
       /\ IF diagnosis.zero_for_one
          THEN /\ diagnosis.val.next_tick < diagnosis.val.current_tick
               /\ diagnosis.val.current_tick - diagnosis.val.next_tick
                     <= diagnosis.val.tick_spacing
          ELSE /\ diagnosis.val.next_tick > diagnosis.val.current_tick
               /\ diagnosis.val.next_tick - diagnosis.val.current_tick
                     <= diagnosis.val.tick_spacing

\* C25: the liquidity_available verify_swap_path returns says whether the
\* next_tick it computed has liquidityGross > 0, in both directions.
C25_LiquidityAtNextTick ==
    (Diagnosed("verify_swap_path") /\ diagnosis.kind = "return")
    => diagnosis.val.liquidity_available = (LiquidityGross(diagnosis.val.next_tick) > 0)

\* C26: a verify_swap_path whose quote failed while its other reads answered
\* returns, with can_swap = false and no quoted_amount_out; can_swap is true
\* exactly when the quote answered.
C26_QuoteFailureIsCaptured ==
    Diagnosed("verify_swap_path")
    => /\ diagnosis.kind = "return"
          => /\ diagnosis.val.can_swap = diagnosis.quoteOk
             /\ ~diagnosis.quoteOk => diagnosis.val.quoted_amount_out = <<>>
       /\ (/\ ~diagnosis.quoteOk
           /\ diagnosis.fault = "none"
           /\ ~CumulativesReverts(
                  Min(poolView.tick,
                      NextTick(poolView.tick, poolView.spacing, diagnosis.zero_for_one)),
                  Max(poolView.tick,
                      NextTick(poolView.tick, poolView.spacing, diagnosis.zero_for_one))))
          => diagnosis.kind = "return"

C26_Witness ==
    /\ Diagnosed("verify_swap_path")
    /\ diagnosis.kind = "return"
    /\ ~diagnosis.quoteOk
    /\ ~diagnosis.val.can_swap

\* C27: run_full_diagnosis on a pool that answers every read, with no
\* initialized tick or with the position out of range, returns a report; with
\* no initialized tick every range check of the report says uninitialized /
\* unavailable.
C27_ZeroLiquidityReport ==
    (/\ Diagnosed("run_full_diagnosis")
     /\ diagnosis.fault = "none"
     /\ \/ poolView.liqTicks = {}
        \/ poolView.tick < poolView.position.tick_lower
        \/ poolView.tick >= poolView.position.tick_upper)
    => /\ diagnosis.kind = "return"
       /\ poolView.liqTicks = {}
          => /\ ~diagnosis.val.current_range_liquidity.tick_lower_initialized
             /\ ~diagnosis.val.current_range_liquidity.tick_upper_initialized
             /\ ~diagnosis.val.position_range_liquidity.tick_lower_initialized
             /\ ~diagnosis.val.position_range_liquidity.tick_upper_initialized
             /\ ~diagnosis.val.swap_path_info.zero_to_one.liquidity_available
             /\ ~diagnosis.val.swap_path_info.one_to_zero.liquidity_available

\* C28: a run_full_diagnosis in which a tick read, the cumulatives read or
\* the position read failed still returns a report.
C28_FailedQueryDegrades ==
    (Diagnosed("run_full_diagnosis")
        /\ diagnosis.fault \in {"ticks", "cumulatives", "positions"})
    => diagnosis.kind = "return"

\* The transactions the chain mined (accepted).
RaceMined == {h \in Hashes : txs[h].status \in {"success", "failed"}}

\* C29: with two orchestrations of one signer running at once nothing is
\* reserved locally: the nonce of a transaction being built or sent is never
\* ahead of the account's transaction count, so both orchestrations can hold
\* the same nonce; and of the transactions signed with one nonce the chain
\* accepts at most one.
C29_NonceRace ==
    /\ \A p \in Procs : race.pc[p] = "send" => race.nonce[p] <= txCount
    /\ \A h \in Hashes : txs[h].status = "pending" => txs[h].nonce <= txCount
    /\ \A h, g \in RaceMined : txs[h].nonce = txs[g].nonce => h = g

C29_Witness ==
    \E h, g \in Hashes :
        /\ txs[h].proc # txs[g].proc
        /\ txs[h].op # txs[g].op
        /\ txs[h].nonce = txs[g].nonce
        /\ h \in RaceMined
        /\ txs[g].status = "rejected"

\* C30: in a run of main a call that raised is the last thing the run did: no
\* later call is invoked (no initialize_V3pool after a create_pool that
\* raised) and no transaction is broadcast after it; an
\* add_full_range_liquidity that raised in its approval loop broadcast only
\* the approvals before the one that raised and no mint; a swap method that
\* raised before its approval was broadcast broadcast no swap.
C30_FatalErrorAborts ==
    /\ \A c \in Finished :
          results[c].kind = "raise"
          => /\ c = Len(results)
             /\ pc = "idle"
             /\ \A h \in Hashes : txs[h].call <= c
    /\ \A c \in Finished :
          (results[c].op = "add_full_range_liquidity"
              /\ results[c].kind = "raise" /\ results[c].loc.i < 2)
          => /\ \A h \in TxsOfCall(c) : txs[h].kind = "approve"
             /\ Cardinality(TxsOfCall(c)) = results[c].loc.i
    /\ \A c \in Finished :
          (results[c].op \in SwapOps
              /\ results[c].kind = "raise" /\ ApprovalsOfCall(c) = {})
          => TxsOfCall(c) = {}

C30_Witness ==
    /\ Len(results) = 1
    /\ results[1].op = "create_pool"
    /\ results[1].kind = "raise"
    /\ \E h \in TxsOfCall(1) : txs[h].status = "failed" /\ txs[h].observed
    /\ poolState = "NonExistent"
    /\ pc = "idle"

\* The contract whose function a transaction calls.
SentTo(h) ==
    CASE txs[h].kind = "approve" -> txs[h].token
      [] txs[h].kind = "swap" -> "router"
      [] txs[h].kind = "mint" -> "nft_manager"
      [] txs[h].kind = "createPool" -> "factory"
      [] txs[h].kind = "initialize" -> POOL

\* The token a swap takes in and the token it gives out.
SwapTokenIn(h) ==
    IF txs[h].op = "swap_tokens" THEN txs[h].params.path[1] ELSE txs[h].params.tokenIn
SwapTokenOut(h) ==
    IF txs[h].op = "swap_tokens" THEN txs[h].params.path[3] ELSE txs[h].params.tokenOut

\* C35: every swap of swap_tokens and swap_tokens_alternative comes after
\* one approval of its invocation, sent to the swap's input token, with the
\* router the swap is sent to as spender and the swap's amountIn as amount;
\* swap_tokens swaps token0 for token1, swap_tokens_alternative token1 for
\* token0.
C35_ApprovalMatchesSwap ==
    \A h \in SwapsOfSwapOps :
        /\ ApprovalsOfCall(txs[h].call) # {}
        /\ \A g \in ApprovalsOfCall(txs[h].call) :
              /\ g < h
              /\ SentTo(g) = SwapTokenIn(h)
              /\ txs[g].params.spender = SentTo(h)
              /\ txs[g].params.amount = txs[h].params.amountIn
        /\ SwapTokenIn(h) = IF txs[h].op = "swap_tokens" THEN "token0" ELSE "token1"
        /\ SwapTokenOut(h) = IF txs[h].op = "swap_tokens" THEN "token1" ELSE "token0"

C35_Witness ==
    /\ \E h \in SwapsOfSwapOps : txs[h].op = "swap_tokens" /\ txs[h].status = "success"
    /\ \E h \in SwapsOfSwapOps :
          txs[h].op = "swap_tokens_alternative" /\ txs[h].status # "pending"

\* C36: an add_full_range_liquidity whose mint receipt is success but has no
\* IncreaseLiquidity event, or whose re-query failed, raises and returns no
\* hash, while the pool stays funded; and nothing is checked before the mint:
\* an invocation that is past its mint step, or returned, has broadcast one
\* mint transaction of its own, also on a pool that was funded already.
C36_MintedButRaised ==
    /\ \A c \in Finished :
          \A h \in TxsOfCall(c) :
             (/\ results[c].op = "add_full_range_liquidity"
              /\ txs[h].kind = "mint" /\ txs[h].status = "success"
              /\ (~txs[h].hasEvent \/ results[c].loc.ticks = "failed"))
             => /\ results[c].kind = "raise"
                /\ results[c].val = NoneVal
                /\ poolState = "Funded"
    /\ \A c \in Finished :
          (results[c].op = "add_full_range_liquidity" /\ results[c].kind = "return")
          => Cardinality({h \in TxsOfCall(c) : txs[h].kind = "mint"}) = 1
    /\ pc = "al_mint_wait"
       => Cardinality({h \in TxsOfCall(CurCall) : txs[h].kind = "mint"}) = 1

C36_Witness ==
    \E c \in Finished :
        \E h \in TxsOfCall(c) :
            /\ results[c].op = "add_full_range_liquidity"
            /\ results[c].kind = "raise"
            /\ txs[h].kind = "mint" /\ txs[h].status = "success" /\ ~txs[h].hasEvent
            /\ txs[h].stateAtSend = "Funded"

\* C34: a create_pool that returns, returns the address the factory has
\* registered for (token0, token1, fee).  When another actor created the pool
\* after the existence check of an invocation and before its createPool
\* transaction was mined, that invocation raises; and a create_pool after it,
\* once its read of the factory answered, returns the registered address and
\* broadcast nothing.
C34_RivalCreation ==
    /\ \A c \in Finished :
          (results[c].op = "create_pool" /\ results[c].kind = "return")
          => /\ results[c].val = AddrVal(POOL)
             /\ GetPool = POOL
    /\ (race # NoRace /\ race.pc \in {"cp_send", "cp_wait"})
       => /\ race.call \in Finished
             => /\ results[race.call].kind = "raise"
                /\ results[race.call].loc.existing = ZERO_ADDRESS
          /\ \A c \in Finished :
                (c > race.call /\ results[c].loc.existing # "")
                => /\ results[c].kind = "return"
                   /\ results[c].val = AddrVal(POOL)
                   /\ TxsOfCall(c) = {}

C34_Witness ==
    /\ race # NoRace
    /\ race.pc = "cp_wait"
    /\ race.call = 1
    /\ Len(results) = 2
    /\ results[1].kind = "raise"
    /\ \E h \in TxsOfCall(1) : txs[h].status = "failed"
    /\ results[2].kind = "return"
    /\ TxsOfCall(2) = {}

\* C33: in a finished run_full_diagnosis every current_tick of the report is
\* the tick the pool had when its own call read slot0 (pool_state, then each
\* verify_swap_path), not one read earlier; so with no trade between the calls
\* the three are equal, and with trades they need not be.
C33_ReportIsNotASnapshot ==
    diagnosis.pc = "done"
    => /\ diagnosis.report.pool_state.current_tick = diagnosis.seen[1]
       /\ diagnosis.report.swap_path_info.zero_to_one.current_tick = diagnosis.seen[2]
       /\ diagnosis.report.swap_path_info.one_to_zero.current_tick = diagnosis.seen[3]
       /\ diagnosis.trades = 0
          => /\ diagnosis.report.swap_path_info.zero_to_one.current_tick
                  = diagnosis.report.pool_state.current_tick
             /\ diagnosis.report.swap_path_info.one_to_zero.current_tick
                  = diagnosis.report.pool_state.current_tick

C33_Witness ==
    /\ diagnosis.pc = "done"
    /\ diagnosis.trades > 0
    /\ diagnosis.report.pool_state.current_tick
          # diagnosis.report.swap_path_info.zero_to_one.current_tick
    /\ diagnosis.report.swap_path_info.zero_to_one.current_tick
          # diagnosis.report.swap_path_info.one_to_zero.current_tick

\* The get_logs requests made so far.
LogQueries == 1..Len(eventLog.queries)

\* C31: every get_logs request of the two methods carries a from_block above
\* zero (never the genesis block) and the block number the chain had as
\* to_block, with from_block <= to_block when the head is at or past the start
\* block; and a method call makes one request per event, not several for
\* pieces of the range.
C31_BoundedLogRange ==
    /\ \A q \in LogQueries :
          /\ eventLog.queries[q].from_block > 0
          /\ eventLog.queries[q].to_block = eventLog.queries[q].head
          /\ eventLog.queries[q].head >= eventLog.queries[q].from_block
             => eventLog.queries[q].from_block <= eventLog.queries[q].to_block
    /\ \A q, r \in LogQueries :
          (eventLog.queries[q].call = eventLog.queries[r].call
              /\ eventLog.queries[q].event = eventLog.queries[r].event)
          => q = r

C31_Witness ==
    /\ \E q \in LogQueries :
          /\ eventLog.queries[q].head > eventLog.queries[q].from_block
          /\ eventLog.last.op = "query_event_logs"
          /\ eventLog.queries[q].call = eventLog.n
    /\ \E q \in LogQueries :
          /\ eventLog.queries[q].head = eventLog.queries[q].from_block
          /\ eventLog.queries[q].call = 1

\* C37: a query_single_event whose get_logs the provider rejected returns
\* None, and query_single_event raises only without having made a request; a
\* query_event_logs with a rejected get_logs raises, and one that returns,
\* returns logs for exactly those of Swap, Initialize and Mint the ABI has.
C37_SingleEventSwallowsFailure ==
    /\ eventLog.last.op = "query_single_event"
       => /\ eventLog.last.rejected
             => eventLog.last.kind = "return" /\ eventLog.last.val = LogsNone
          /\ eventLog.last.kind = "raise"
             => \A q \in LogQueries : eventLog.queries[q].call # eventLog.n
          /\ (eventLog.last.kind = "return" /\ ~eventLog.last.rejected)
             => eventLog.last.val.t = "list"
    /\ eventLog.last.op = "query_event_logs"
       => /\ eventLog.last.rejected => eventLog.last.kind = "raise"
          /\ eventLog.last.kind = "return"
             => /\ eventLog.last.val.t = "dict"
                /\ eventLog.last.val.keys \subseteq {"Swap", "Initialize", "Mint"}
                /\ \A e \in {"Swap", "Initialize", "Mint"} :
                      InAbi(e) <=> e \in eventLog.last.val.keys

C37_Witness ==
    /\ eventLog.last.op = "query_single_event"
    /\ eventLog.last.rejected
    /\ eventLog.last.kind = "return"
    /\ eventLog.last.val = LogsNone
    /\ \E q \in LogQueries : eventLog.queries[q].call = eventLog.n

\* C32: the argument of every initialize transaction is
\* 79228162514264337593543950336, which is 1 * 2^96, digit for digit.
C32_SqrtPriceIsTwoTo96 ==
    /\ INITIAL_SQRTPRICE = <<7, 9, 2, 2, 8, 1, 6, 2, 5, 1, 4, 2, 6, 4, 3, 3, 7, 5, 9, 3, 5,
                             4, 3, 9, 5, 0, 3, 3, 6>>
    /\ \A h \in Hashes :
          txs[h].kind = "initialize"
          => txs[h].params.sqrtPriceX96
                = <<7, 9, 2, 2, 8, 1, 6, 2, 5, 1, 4, 2, 6, 4, 3, 3, 7, 5, 9, 3, 5,
                    4, 3, 9, 5, 0, 3, 3, 6>>

C32_Witness ==
    \E h \in Hashes :
        /\ txs[h].kind = "initialize"
        /\ txs[h].status = "success"
        /\ Len(txs[h].params.sqrtPriceX96) = 29

====
